---- MODULE Spec2Model ----
(***************************************************************************)
(* Model of excelsubtableparser (extractor.py, config.py): the subtable    *)
(* extraction engine as a state machine.  One extraction call runs from    *)
(* pc = "start" to pc = "done" (a result is returned) or pc = "error" (a   *)
(* ValueError propagates to the caller).                                   *)
(*                                                                         *)
(* Text is a sequence of one-character strings.  A typed scalar is a       *)
(* record tagged by k: none, str, int, bool.  A compiled pattern is a      *)
(* record [re, ic]: a regular-expression tree and the IGNORECASE flag.     *)
(***************************************************************************)
EXTENDS Integers, Sequences, FiniteSets, TLC

VARIABLES
    sheetnames,   \* workbook.sheetnames
    worksheet,    \* the grid of the one sheet of the workbook
    sheet_name,   \* argument of extract()
    config,       \* argument of extract(): a SubtableSearchConfig
    pc,           \* position of the call
    ex,           \* locals of extract() (multi-subtable loop)
    sub,          \* locals of _extract_single_subtable()
    scan,         \* locals of _extract_rows()
    result,       \* value returned to the caller, or the error raised
    trace,        \* history: rows processed by the row scan of the current pass
    history,      \* history: the passes of the multi-subtable loop of the current call
    calls,        \* history: the calls completed earlier on the same extractor
    other,        \* the second of two concurrent calls, while it is not the one running
    sql           \* a call of a function of sqlglot_helpers.expressions_normalize

vars ==
    <<sheetnames, worksheet, sheet_name, config, pc, ex, sub, scan, result, trace, history,
      calls, other, sql>>

-----------------------------------------------------------------------------
(* Bounds of the model *)

\* number of data rows below the header row in the generated sheets
MaxDataRows == 3

\* number of calls made on one extractor after the first one
MaxCalls == 2

-----------------------------------------------------------------------------
(* Text *)

None == [k |-> "none"]
StrV(s) == [k |-> "str", s |-> s]
IntV(n) == [k |-> "int", n |-> n]
BoolV(b) == [k |-> "bool", b |-> b]
\* a Python float: the double of value pow * 2^53 + n + half / 2; the doubles of a
\* magnitude above 2^53 are the even integers, those from 2^52 to 2^53 the integers
FloatV(pow, n, half) == [k |-> "float", pow |-> pow, n |-> n, half |-> half]
\* a Python int of a magnitude near 2^53 (an int has no width): pow * 2^53 + n
LongV(pow, n) == [k |-> "long", pow |-> pow, n |-> n]

IsSpace(c) == c = " "

RECURSIVE LStrip(_)
LStrip(s) == IF s # <<>> /\ IsSpace(Head(s)) THEN LStrip(Tail(s)) ELSE s

RECURSIVE RStrip(_)
RStrip(s) ==
    IF s # <<>> /\ IsSpace(s[Len(s)]) THEN RStrip(SubSeq(s, 1, Len(s) - 1)) ELSE s

\* str.strip()
Strip(s) == RStrip(LStrip(s))

Digits == <<"0", "1", "2", "3", "4", "5", "6", "7", "8", "9">>
IsDigit(c) == \E i \in 1..10 : Digits[i] = c

RECURSIVE NatStr(_)
NatStr(n) == IF n < 10 THEN <<Digits[n + 1]>> ELSE NatStr(n \div 10) \o <<Digits[(n % 10) + 1]>>

\* the decimal digits of 2^53 + n = 9007199254740992 + n, for -82 <= n <= 7
NearStr(n) ==
    <<"9", "0", "0", "7", "1", "9", "9", "2", "5", "4", "7", "4", "0", "9">> \o NatStr(92 + n)

\* str(value) of a typed scalar
Str(v) ==
    CASE v.k = "none" -> <<"N", "o", "n", "e">>
      [] v.k = "str"  -> v.s
      [] v.k = "int"  -> IF v.n < 0 THEN <<"-">> \o NatStr(0 - v.n) ELSE NatStr(v.n)
      [] v.k = "bool" -> IF v.b THEN <<"T", "r", "u", "e">> ELSE <<"F", "a", "l", "s", "e">>
      [] v.k = "long" -> IF v.pow < 0 THEN <<"-">> \o NearStr(0 - v.n) ELSE NearStr(v.n)
      [] v.k = "float" ->
            IF v.pow < 0 THEN <<"-">> \o NearStr(0 - v.n) \o <<".", "0">>
            ELSE IF v.pow > 0 THEN NearStr(v.n) \o <<".", "0">>
            ELSE IF v.n >= 0 THEN NatStr(v.n) \o (IF v.half = 1 THEN <<".", "5">> ELSE <<".", "0">>)
            ELSE IF v.half = 1 THEN <<"-">> \o NatStr(0 - v.n - 1) \o <<".", "5">>
            ELSE <<"-">> \o NatStr(0 - v.n) \o <<".", "0">>

\* variant of Truthy: every number and every boolean counts as filled
TruthyNumbers(v) ==
    CASE v.k = "none" -> FALSE
      [] v.k = "str"  -> v.s # <<>>
      [] OTHER -> TRUE

\* bool(value): None, "", 0 and False are falsy
Truthy(v) ==
    CASE v.k = "none" -> FALSE
      [] v.k = "str"  -> v.s # <<>>
      [] v.k = "int"  -> v.n # 0
      [] v.k = "bool" -> v.b
      [] v.k = "long" -> TRUE
      [] v.k = "float" -> ~(v.pow = 0 /\ v.n = 0 /\ v.half = 0)

UpperCase == <<"A", "B", "C", "D", "R", "S", "T">>
LowerCase == <<"a", "b", "c", "d", "r", "s", "t">>
Lower(c) ==
    IF \E i \in 1..Len(UpperCase) : UpperCase[i] = c
    THEN LowerCase[CHOOSE i \in 1..Len(UpperCase) : UpperCase[i] = c]
    ELSE c

-----------------------------------------------------------------------------
(* Regular expressions: re.compile(...).match(text) *)

Lit(c) == [t |-> "lit", c |-> c]
AnyChar == [t |-> "any"]
Digit == [t |-> "digit"]
Star(r) == [t |-> "star", r |-> r]
Cat(rs) == [t |-> "cat", rs |-> rs]
Alt(a, b) == [t |-> "alt", a |-> a, b |-> b]
Bol == [t |-> "bol"]
Eol == [t |-> "eol"]
Plus(r) == Cat(<<r, Star(r)>>)

RECURSIVE Ends(_, _, _, _)
RECURSIVE CatEnds(_, _, _, _)
RECURSIVE StarEnds(_, _, _, _, _)

\* the positions j at which a match of r that starts at position i of s can end
Ends(r, s, i, ic) ==
    CASE r.t = "lit"   -> IF i < Len(s) /\ (IF ic THEN Lower(s[i + 1]) = Lower(r.c) ELSE s[i + 1] = r.c)
                          THEN {i + 1} ELSE {}
      [] r.t = "any"   -> IF i < Len(s) THEN {i + 1} ELSE {}
      [] r.t = "digit" -> IF i < Len(s) /\ IsDigit(s[i + 1]) THEN {i + 1} ELSE {}
      [] r.t = "bol"   -> IF i = 0 THEN {i} ELSE {}
      [] r.t = "eol"   -> IF i = Len(s) THEN {i} ELSE {}
      [] r.t = "alt"   -> Ends(r.a, s, i, ic) \cup Ends(r.b, s, i, ic)
      [] r.t = "cat"   -> CatEnds(r.rs, s, {i}, ic)
      [] r.t = "star"  -> StarEnds(r.r, s, {i}, {i}, ic)

CatEnds(rs, s, from, ic) ==
    IF rs = <<>> THEN from
    ELSE CatEnds(Tail(rs), s, UNION {Ends(Head(rs), s, i, ic) : i \in from}, ic)

StarEnds(r, s, frontier, acc, ic) ==
    LET next == UNION {Ends(r, s, i, ic) : i \in frontier} \ acc
    IN  IF next = {} THEN acc ELSE StarEnds(r, s, next, acc \cup next, ic)

\* pattern.match(text): a match anchored at the start of text only
PatternMatch(pattern, text) == Ends(pattern.re, text, 0, pattern.ic) # {}

\* pattern.fullmatch(text): the whole text is matched
PatternFullMatch(pattern, text) == Len(text) \in Ends(pattern.re, text, 0, pattern.ic)

Compile(re) == [re |-> re, ic |-> FALSE]
CompileIC(re) == [re |-> re, ic |-> TRUE]

RECURSIVE LitSeq(_)
LitSeq(s) == IF s = <<>> THEN <<>> ELSE <<Lit(Head(s))>> \o LitSeq(Tail(s))
\* the pattern whose source is the literal text s
Word(s) == Cat(LitSeq(s))

-----------------------------------------------------------------------------
(* The grid: an openpyxl worksheet, read-only *)

\* a cell of the sheet: its raw value and its declared kind (cell.data_type)
Cell(value, data_type) == [value |-> value, data_type |-> data_type]
EmptyCell == Cell(None, "n")
TextCell(s) == Cell(StrV(s), "s")
NumCell(n) == Cell(IntV(n), "n")

\* worksheet.cell(row=row, column=col)
CellAt(ws, row, col) ==
    IF row \in 1..ws.max_row /\ col \in 1..ws.max_column THEN ws.cells[row][col] ELSE EmptyCell

\* cell.coordinate in merged_range
InRange(row, col, merged_range) ==
    /\ merged_range.min_row <= row /\ row <= merged_range.max_row
    /\ merged_range.min_col <= col /\ col <= merged_range.max_col

ColLetters == <<"A", "B", "C", "D", "E", "F">>
\* chr(ord('A') + col_idx - 1)
ColLetter(col_idx) == ColLetters[col_idx]
\* ord(column_letter.upper()) - ord('A') + 1
ColIdx(column_letter) == CHOOSE i \in 1..Len(ColLetters) : ColLetters[i] = column_letter

\* f"{col_letter}{row_num}"
Coord(col_letter, row_num) == <<col_letter, row_num>>

\* worksheet.cell(row=..., column=col_idx) for the given columns and rows of the sheet:
\* Worksheet.cell returns the cell of the coordinate and creates it, empty, when the
\* sheet has none there; a cell created beyond max_column widens the column extent
CellsCreated(ws, col_idxs) ==
    LET beyond == {c \in col_idxs : c > ws.max_column}
    IN  IF beyond = {} THEN ws
        ELSE LET width == CHOOSE c \in beyond : \A d \in beyond : d <= c
             IN  [ws EXCEPT !.max_column = width,
                            !.cells = [r \in 1..ws.max_row |->
                                          [c \in 1..width |->
                                              IF c <= ws.max_column THEN ws.cells[r][c]
                                              ELSE EmptyCell]]]

-----------------------------------------------------------------------------
(* Configuration model (config.py) *)

ColumnConfig(column_letter, header_pattern, value_pattern) ==
    [column_letter |-> column_letter, header_pattern |-> header_pattern,
     value_pattern |-> value_pattern]

SectionHeaderConfig(pattern, start_column, is_merged, merged_rows, merged_columns) ==
    [pattern |-> pattern, start_column |-> start_column, is_merged |-> is_merged,
     merged_rows |-> merged_rows, merged_columns |-> merged_columns]

\* the defaults of SubtableSearchConfig; None-valued options are None, an unset
\* list is <<>>, an unset max_subtables is 0 and an unset end_pattern_column is ""
\* (all falsy, like None)
DefaultConfig ==
    [columns |-> <<>>,
     row_validation |-> [minimum_filled_columns |-> 0],
     section_header |-> None,
     max_consecutive_invalid_rows |-> 0,
     max_consecutive_blank_rows |-> 0,
     stop_on_merged_cell |-> FALSE,
     end_pattern |-> None,
     end_pattern_column |-> "",
     discoverable_headers |-> <<>>,
     strict_columns |-> FALSE,
     extract_multiple |-> FALSE,
     max_subtables |-> 0,
     max_blank_rows_between_subtables |-> 50,
     combine_subtables |-> TRUE]

-----------------------------------------------------------------------------
(* Cell value typing *)

\* isinstance(val, (int, float)); a bool is an int
IsNumber(val) == val.k \in {"int", "long", "float", "bool"}

\* line 511: val == int(val)
IsWhole(val) == val.k = "float" => val.half = 0

\* line 515: -2**53 <= val <= 2**53
InSafeRange(val) ==
    IF val.k \in {"long", "float"}
    THEN CASE val.pow = 0 -> TRUE
           [] val.pow > 0 -> val.n < 0 \/ (val.n = 0 /\ (val.k = "float" => val.half = 0))
           [] val.pow < 0 -> val.n >= 0
    ELSE TRUE

\* int(val) of a whole number
ToInt(val) ==
    CASE val.k = "int" -> val
      [] val.k = "bool" -> IntV(IF val.b THEN 1 ELSE 0)
      [] val.k = "long" -> val
      [] val.k = "float" -> IF val.pow = 0 THEN IntV(val.n) ELSE LongV(val.pow, val.n)

\* the even integer nearest to the odd or even n > 0, a tie going to the multiple of
\* 4: the mantissa of the double nearest to 2^53 + n, rounded half to even
RoundHalfEven(n) ==
    IF n % 2 = 0 THEN n ELSE IF ((n - 1) \div 2) % 2 = 0 THEN n - 1 ELSE n + 1

\* line 520: float(val) if not isinstance(val, float) else val; float() of an int
\* is the nearest double
ToFloat(val) ==
    CASE val.k = "int" -> FloatV(0, val.n, 0)
      [] val.k = "bool" -> FloatV(0, IF val.b THEN 1 ELSE 0, 0)
      [] val.k = "long" ->
            IF val.pow > 0
            THEN FloatV(val.pow, IF val.n > 0 THEN RoundHalfEven(val.n) ELSE val.n, 0)
            ELSE FloatV(val.pow, IF val.n < 0 THEN 0 - RoundHalfEven(0 - val.n) ELSE val.n, 0)
      [] val.k = "float" -> val

\* lines 501-520: the typed scalar of a numeric value
NumericTyped(val) ==
    IF IsNumber(val) /\ IsWhole(val) /\ InSafeRange(val) THEN ToInt(val) ELSE ToFloat(val)

\* _extract_cell_value_with_type
ExtractCellValueWithType(cell) ==
    IF cell.value = None THEN None
    ELSE CASE cell.data_type = "s" -> StrV(Str(cell.value))
           [] cell.data_type = "n" -> NumericTyped(cell.value)
           [] cell.data_type = "b" -> BoolV(Truthy(cell.value))
           [] cell.data_type = "f" ->
                 IF cell.value.k = "bool" THEN cell.value
                 ELSE IF IsNumber(cell.value) THEN NumericTyped(cell.value)
                 ELSE cell.value
           [] cell.data_type = "e" -> StrV(<<"#", "E", "R", "R", "O", "R", ":", " ">> \o Str(cell.value))
           [] OTHER -> cell.value

-----------------------------------------------------------------------------
(* Section header locator *)

\* variant of MergedMatches: the spans of the range are not compared with the
\* configured ones
MergedMatchesAnySpan(ws, header_config, row, col_idx) ==
    {mr \in ws.merged_cells :
        /\ InRange(row, col_idx, mr)
        /\ mr.min_col = col_idx
        /\ Truthy(CellAt(ws, mr.min_row, mr.min_col).value)
        /\ PatternMatch(header_config.pattern, Str(CellAt(ws, mr.min_row, mr.min_col).value))}

\* the merged ranges that contain the cell and pass the checks of lines 246-255
MergedMatches(ws, header_config, row, col_idx) ==
    {mr \in ws.merged_cells :
        /\ InRange(row, col_idx, mr)
        /\ mr.min_col = col_idx
        /\ (header_config.merged_rows # 0 => mr.max_row - mr.min_row + 1 = header_config.merged_rows)
        /\ (header_config.merged_columns # 0 => mr.max_col - mr.min_col + 1 = header_config.merged_columns)
        /\ Truthy(CellAt(ws, mr.min_row, mr.min_col).value)
        /\ PatternMatch(header_config.pattern, Str(CellAt(ws, mr.min_row, mr.min_col).value))}

\* does the scan of _find_section_header_from_row return at this row
SectionHeaderAt(ws, header_config, row) ==
    LET col_idx == ColIdx(header_config.start_column)
        cell == CellAt(ws, row, col_idx)
    IN  IF header_config.is_merged
        THEN MergedMatches(ws, header_config, row, col_idx) # {}
        ELSE Truthy(cell.value) /\ PatternMatch(header_config.pattern, Str(cell.value))

\* variant of FindSectionHeaderFromRow: when no row matches, an empty section just
\* above start_row is returned
FindSectionHeaderOrEmpty(ws, header_config, start_row) ==
    LET col_idx == ColIdx(header_config.start_column)
        hits == {row \in start_row..ws.max_row : SectionHeaderAt(ws, header_config, row)}
    IN  IF hits = {} THEN [section_text |-> <<>>, start_row |-> start_row, end_row |-> start_row - 1]
        ELSE LET row == CHOOSE r \in hits : \A q \in hits : r <= q
             IN  [section_text |-> Str(CellAt(ws, row, col_idx).value),
                  start_row |-> row, end_row |-> row]

\* lines 226-233: the column whose cells the section search reads, row by row
SectionSearchColumns(ws, header_config, start_row) ==
    IF start_row <= ws.max_row THEN {ColIdx(header_config.start_column)} ELSE {}

\* _find_section_header_from_row: None, or (section_text, start_row, end_row)
FindSectionHeaderFromRow(ws, header_config, start_row) ==
    LET col_idx == ColIdx(header_config.start_column)
        hits == {row \in start_row..ws.max_row : SectionHeaderAt(ws, header_config, row)}
    IN  IF hits = {} THEN None
        ELSE LET row == CHOOSE r \in hits : \A q \in hits : r <= q
             IN  IF header_config.is_merged
                 THEN LET mr == CHOOSE m \in MergedMatches(ws, header_config, row, col_idx) : TRUE
                      IN  [section_text |-> Str(CellAt(ws, mr.min_row, mr.min_col).value),
                           start_row |-> mr.min_row, end_row |-> mr.max_row]
                 ELSE [section_text |-> Str(CellAt(ws, row, col_idx).value),
                       start_row |-> row, end_row |-> row]

-----------------------------------------------------------------------------
(* Header row locator *)

max_search_rows == 10

\* variant of HeaderMatches: a configured column holds any text, matching or not
HeaderMatchesNonEmpty(ws, row, columns) ==
    \E i \in 1..Len(columns) : Truthy(CellAt(ws, row, ColIdx(columns[i].column_letter)).value)

\* the test of lines 290-294: at least one configured header pattern matches
HeaderMatches(ws, row, columns) ==
    \E i \in 1..Len(columns) :
        LET cell == CellAt(ws, row, ColIdx(columns[i].column_letter))
        IN  Truthy(cell.value) /\ PatternMatch(columns[i].header_pattern, Strip(Str(cell.value)))

\* variant of FindHeaderRow: the search is not limited to max_search_rows rows
FindHeaderRowUnbounded(ws, start_row, columns) ==
    LET hits == {row \in start_row..ws.max_row : HeaderMatches(ws, row, columns)}
    IN  IF hits = {} THEN 0 ELSE CHOOSE r \in hits : \A q \in hits : r <= q

\* lines 290-292: the columns whose cells the header search reads in each row
HeaderSearchColumns(ws, start_row, columns) ==
    IF start_row <= ws.max_row
    THEN {ColIdx(columns[i].column_letter) : i \in 1..Len(columns)}
    ELSE {}

\* _find_header_row: the row number, or 0 for None
FindHeaderRow(ws, start_row, columns) ==
    LET hits == {row \in start_row..(start_row + max_search_rows - 1) :
                    row <= ws.max_row /\ HeaderMatches(ws, row, columns)}
    IN  IF hits = {} THEN 0 ELSE CHOOSE r \in hits : \A q \in hits : r <= q

-----------------------------------------------------------------------------
(* Column mapper *)

\* column_mapping[key] = entry on an insertion-ordered dict
DictPut(mapping, entry) ==
    IF \E i \in 1..Len(mapping) : mapping[i].key = entry.key
    THEN [i \in 1..Len(mapping) |-> IF mapping[i].key = entry.key THEN entry ELSE mapping[i]]
    ELSE Append(mapping, entry)

\* key in column_mapping
HasKey(mapping, key) == \E i \in 1..Len(mapping) : mapping[i].key = key

\* lines 317-331: the explicit columns whose header cell matches
RECURSIVE FixedColumns(_, _, _, _)
FixedColumns(ws, header_row, columns, mapping) ==
    IF columns = <<>> THEN mapping
    ELSE LET col_config == Head(columns)
             col_idx == ColIdx(col_config.column_letter)
             cell == CellAt(ws, header_row, col_idx)
         IN  IF Truthy(cell.value) /\ PatternMatch(col_config.header_pattern, Strip(Str(cell.value)))
             THEN FixedColumns(ws, header_row, Tail(columns),
                    DictPut(mapping, [key |-> col_config.column_letter,
                                      index |-> col_idx,
                                      header_text |-> Strip(Str(cell.value)),
                                      config |-> col_config,
                                      is_discovered |-> FALSE]))
             ELSE FixedColumns(ws, header_row, Tail(columns), mapping)

\* re.compile(r".*"): the value pattern of a discovered column
AcceptAny == Compile(Star(AnyChar))

\* variant of FirstMatching: the last discoverable pattern that matches
LastMatching(patterns, cell_text) ==
    LET hits == {i \in 1..Len(patterns) : PatternMatch(patterns[i], cell_text)}
    IN  IF hits = {} THEN 0 ELSE CHOOSE i \in hits : \A j \in hits : i >= j

\* lines 351-369: the first discoverable pattern that matches, 0 if none does
FirstMatching(patterns, cell_text) ==
    LET hits == {i \in 1..Len(patterns) : PatternMatch(patterns[i], cell_text)}
    IN  IF hits = {} THEN 0 ELSE CHOOSE i \in hits : \A j \in hits : i <= j

\* lines 334-369: scan the whole header row, left to right, for discoverable headers
RECURSIVE DiscoverColumns(_, _, _, _, _)
DiscoverColumns(ws, header_row, patterns, col_idx, mapping) ==
    IF col_idx > ws.max_column THEN mapping
    ELSE LET col_letter == ColLetter(col_idx)
             cell == CellAt(ws, header_row, col_idx)
             cell_text == Strip(Str(cell.value))
             k == FirstMatching(patterns, cell_text)
         IN  IF ~HasKey(mapping, col_letter) /\ Truthy(cell.value) /\ k # 0
             THEN DiscoverColumns(ws, header_row, patterns, col_idx + 1,
                    DictPut(mapping, [key |-> col_letter,
                                      index |-> col_idx,
                                      header_text |-> cell_text,
                                      config |-> ColumnConfig(col_letter, patterns[k], AcceptAny),
                                      is_discovered |-> TRUE]))
             ELSE DiscoverColumns(ws, header_row, patterns, col_idx + 1, mapping)

\* variant of UnexpectedColumns: the scan stops at the first unexpected column
RECURSIVE UnexpectedColumnsFirstOnly(_, _, _, _)
UnexpectedColumnsFirstOnly(ws, header_row, mapping, col_idx) ==
    IF col_idx > ws.max_column THEN <<>>
    ELSE LET col_letter == ColLetter(col_idx)
             cell == CellAt(ws, header_row, col_idx)
         IN  IF ~HasKey(mapping, col_letter) /\ Truthy(cell.value) /\ Strip(Str(cell.value)) # <<>>
             THEN <<[col_letter |-> col_letter, text |-> Strip(Str(cell.value))]>>
             ELSE UnexpectedColumnsFirstOnly(ws, header_row, mapping, col_idx + 1)

\* lines 375-389: the non-empty header cells of unmapped columns, left to right
RECURSIVE UnexpectedColumns(_, _, _, _)
UnexpectedColumns(ws, header_row, mapping, col_idx) ==
    IF col_idx > ws.max_column THEN <<>>
    ELSE LET col_letter == ColLetter(col_idx)
             cell == CellAt(ws, header_row, col_idx)
             rest == UnexpectedColumns(ws, header_row, mapping, col_idx + 1)
         IN  IF ~HasKey(mapping, col_letter) /\ Truthy(cell.value) /\ Strip(Str(cell.value)) # <<>>
             THEN <<[col_letter |-> col_letter, text |-> Strip(Str(cell.value))]>> \o rest
             ELSE rest

\* lines 317-319: the header cells read for the explicit columns
FixedColumnIndexes(columns) == {ColIdx(columns[i].column_letter) : i \in 1..Len(columns)}

\* the column mapping built by lines 311-369 of _find_column_headers
ColumnMapping(ws, header_row, columns, cfg) ==
    LET fixed == FixedColumns(ws, header_row, columns, <<>>)
    IN  IF cfg.discoverable_headers # <<>>
        THEN DiscoverColumns(ws, header_row, cfg.discoverable_headers, 1, fixed)
        ELSE fixed

\* _find_column_headers: the mapping, or the ValueError of strict mode
FindColumnHeaders(ws, header_row, columns, cfg) ==
    LET column_mapping == ColumnMapping(ws, header_row, columns, cfg)
        unexpected_columns ==
            IF cfg.strict_columns THEN UnexpectedColumns(ws, header_row, column_mapping, 1)
            ELSE <<>>
    IN  IF unexpected_columns # <<>>
        THEN [raised |-> TRUE, header_row |-> header_row, unexpected_columns |-> unexpected_columns]
        ELSE [raised |-> FALSE, column_mapping |-> column_mapping]

-----------------------------------------------------------------------------
(* Row extraction, row validator, stop conditions *)

\* the header texts of a mapping: the keys of row_data
HeaderTexts(mapping) == {mapping[i].header_text : i \in 1..Len(mapping)}

\* variant of LastWith: the first binding that carries the header text
FirstWith(mapping, header_text) ==
    CHOOSE i \in 1..Len(mapping) :
        /\ mapping[i].header_text = header_text
        /\ \A j \in 1..Len(mapping) : mapping[j].header_text = header_text => i <= j

\* the last binding that carries the header text
LastWith(mapping, header_text) ==
    CHOOSE i \in 1..Len(mapping) :
        /\ mapping[i].header_text = header_text
        /\ \A j \in 1..Len(mapping) : mapping[j].header_text = header_text => j <= i

\* _extract_single_row: field values and origin coordinates, keyed by header text
ExtractSingleRow(ws, row_num, mapping) ==
    [values |-> [h \in HeaderTexts(mapping) |->
                    LET col_info == mapping[LastWith(mapping, h)]
                        value == ExtractCellValueWithType(CellAt(ws, row_num, col_info.index))
                    IN  IF value # None THEN value ELSE StrV(<<>>)],
     coords |-> [h \in HeaderTexts(mapping) |->
                    Coord(mapping[LastWith(mapping, h)].key, row_num)]]

\* line 436: all(not row_data.get(header_text) for every binding)
IsBlank(row_data, mapping) ==
    \A i \in 1..Len(mapping) : ~Truthy(row_data.values[mapping[i].header_text])

\* line 588: the value pattern test of one binding
ValueMatches(col_config, value) == PatternMatch(col_config.value_pattern, Str(value))

\* variant of NonEmptyColumns: every binding is counted, filled or not
NonEmptyColumnsCountsAll(row_data, mapping) == Len(mapping)

\* lines 594-595: the number of bindings whose value is truthy
NonEmptyColumns(row_data, mapping) ==
    Cardinality({i \in 1..Len(mapping) : Truthy(row_data.values[mapping[i].header_text])})

\* variant of IsValidRow: the minimum_filled_columns test is left out
IsValidRowNoMinimum(row_data, mapping, cfg) ==
    \A i \in 1..Len(mapping) :
        ValueMatches(mapping[i].config, row_data.values[mapping[i].header_text])

\* _is_valid_row
IsValidRow(row_data, mapping, cfg) ==
    /\ \A i \in 1..Len(mapping) :
          ValueMatches(mapping[i].config, row_data.values[mapping[i].header_text])
    /\ (cfg.row_validation.minimum_filled_columns > 0
          => NonEmptyColumns(row_data, mapping) >= cfg.row_validation.minimum_filled_columns)

\* variant of MergedCellHit: any column of the row counts, bound or not
MergedCellHitAnyColumn(ws, row_num, mapping) ==
    \E col \in 1..ws.max_column : \E mr \in ws.merged_cells : InRange(row_num, col, mr)

\* lines 614-620: a bound column's cell at this row lies in a merged range
MergedCellHit(ws, row_num, mapping) ==
    \E i \in 1..Len(mapping) : \E mr \in ws.merged_cells : InRange(row_num, mapping[i].index, mr)

\* lines 623-629: the end pattern matches the cell of end_pattern_column
EndPatternHit(ws, row_num, cfg) ==
    /\ cfg.end_pattern # None
    /\ cfg.end_pattern_column # ""
    /\ LET cell == CellAt(ws, row_num, ColIdx(cfg.end_pattern_column))
       IN  Truthy(cell.value) /\ PatternMatch(cfg.end_pattern, Str(cell.value))

\* lines 623-625: the cell of end_pattern_column is read unless the merged check
\* has answered before
EndConditionColumns(ws, row_num, mapping, cfg) ==
    IF /\ ~(cfg.stop_on_merged_cell /\ MergedCellHit(ws, row_num, mapping))
       /\ cfg.end_pattern # None
       /\ cfg.end_pattern_column # ""
    THEN {ColIdx(cfg.end_pattern_column)}
    ELSE {}

\* variant of CheckEndCondition: the end pattern is not looked at
CheckEndConditionMergedOnly(ws, row_num, mapping, cfg) ==
    cfg.stop_on_merged_cell /\ MergedCellHit(ws, row_num, mapping)

\* _check_end_condition
CheckEndCondition(ws, row_num, mapping, cfg) ==
    \/ (cfg.stop_on_merged_cell /\ MergedCellHit(ws, row_num, mapping))
    \/ EndPatternHit(ws, row_num, cfg)

-----------------------------------------------------------------------------
(* The extraction call as a state machine *)

NoResult == [kind |-> "none"]
\* pd.DataFrame(): the empty frame
EmptyFrame == <<>>

ExIdle ==
    [all_subtables |-> <<>>, current_row |-> 0, subtable_index |-> 0,
     consecutive_blank_rows |-> 0, section_text |-> None, section_end_row |-> 0,
     passes |-> 0]

SubIdle ==
    [start_search_row |-> 0, end_search_row |-> 0, section_text |-> None,
     subtable_index |-> 0, search_start_row |-> 0, header_row |-> 0,
     column_mapping |-> <<>>, df |-> EmptyFrame]

ScanIdle ==
    [rows_data |-> <<>>, start_row |-> 0, current_row |-> 0, max_row |-> 0,
     consecutive_invalid_rows |-> 0, consecutive_blank_rows |-> 0, stop |-> "none"]

\* no second call runs beside this one
NoOther == [phase |-> "none"]

\* no function of expressions_normalize is called
NoSql == [at |-> "none"]

\* variant of SubCall: the search extent of the pass ends above the next section header
SubCallToNextHeader(start_search_row, end_search_row, section_text, subtable_index) ==
    LET below == {r \in (start_search_row + 1)..end_search_row :
                     config.section_header # None /\ SectionHeaderAt(worksheet, config.section_header, r)}
    IN  [SubIdle EXCEPT !.start_search_row = start_search_row,
                        !.end_search_row =
                            IF below = {} THEN end_search_row
                            ELSE (CHOOSE r \in below : \A q \in below : r <= q) - 1,
                        !.section_text = section_text,
                        !.subtable_index = subtable_index]

\* the frame of a call _extract_single_subtable(worksheet, sheet_name, config, ...)
SubCall(start_search_row, end_search_row, section_text, subtable_index) ==
    [SubIdle EXCEPT !.start_search_row = start_search_row,
                    !.end_search_row = end_search_row,
                    !.section_text = section_text,
                    !.subtable_index = subtable_index]

\* variant of SheetNotFound: an empty frame is returned for an unknown sheet
SheetNotFoundAsEmpty(name) == [kind |-> "frame", df |-> EmptyFrame]

\* line 35: raise ValueError(f"Sheet '{sheet_name}' not found in workbook")
SheetNotFound(name) ==
    [kind |-> "error", type |-> "ValueError", what |-> "sheet_not_found", sheet_name |-> name]

\* variant of UnexpectedColumnsError: the error is caught and the subtables completed
\* so far are returned
UnexpectedColumnsSwallowed(found) == [kind |-> "list", frames |-> ex.all_subtables]

\* lines 391-395: raise ValueError("Unexpected columns found in header row ...");
\* nothing catches it, so the caller receives the error and nothing else
UnexpectedColumnsError(found) ==
    [kind |-> "error", type |-> "ValueError", what |-> "unexpected_columns",
     header_row |-> found.header_row, unexpected_columns |-> found.unexpected_columns]

\* variant of NewLocals: the loop's variables survive from the previous call
KeptLocals(previous) == previous

\* lines 44-47: all_subtables, current_row, subtable_index and consecutive_blank_rows
\* are locals created by each call; nothing is read from the frame of a previous call
NewLocals(previous) == ExIdle

\* extract(), lines 34-47: the sheet lookup and the choice of mode
Extract ==
    /\ pc = "start"
    /\ IF sheet_name \notin sheetnames
       THEN /\ pc' = "error"
            /\ result' = SheetNotFound(sheet_name)
            /\ UNCHANGED <<ex, sub>>
       ELSE IF ~config.extract_multiple
       THEN /\ pc' = "sub_section"
            /\ sub' = SubCall(1, worksheet.max_row, None, 0)
            /\ UNCHANGED <<ex, result>>
       ELSE /\ pc' = "loop"
            /\ ex' = [NewLocals(ex) EXCEPT !.current_row = 1]
            /\ UNCHANGED <<sub, result>>
    /\ UNCHANGED <<sql, other, calls, history, sheetnames, worksheet, sheet_name, config, scan, trace>>

\* variant of MaxSubtablesReached: > in place of >=
MaxSubtablesOffByOne(cfg, subtable_index) ==
    cfg.max_subtables # 0 /\ subtable_index > cfg.max_subtables

\* line 54: config.max_subtables and subtable_index >= config.max_subtables
MaxSubtablesReached(cfg, subtable_index) ==
    cfg.max_subtables # 0 /\ subtable_index >= cfg.max_subtables

\* history entry of one pass of the loop: the loop's variables when the pass starts,
\* the row its search starts at and, once it has returned, the rows it extracted
PassStarted(locals, start_search_row) ==
    [current_row |-> locals.current_row,
     subtable_index |-> locals.subtable_index,
     consecutive_blank_rows |-> locals.consecutive_blank_rows,
     start_search_row |-> start_search_row,
     returned |-> FALSE,
     rows |-> <<>>]

PassReturned(log, df) ==
    [log EXCEPT ![Len(log)] =
        [@ EXCEPT !.returned = TRUE,
                  !.rows = [i \in 1..Len(df) |-> df[i].row_number]]]

\* extract(), lines 52-100: the head of one iteration of the multi-subtable loop
MultiLoop ==
    /\ pc = "loop"
    /\ LET section_info ==
              IF config.section_header # None
              THEN FindSectionHeaderFromRow(worksheet, config.section_header, ex.current_row)
              ELSE None
           header_row ==
              IF config.section_header = None /\ ex.subtable_index > 0
              THEN FindHeaderRow(worksheet, ex.current_row, config.columns)
              ELSE 0
           leave ==
              \/ ex.current_row > worksheet.max_row
              \/ MaxSubtablesReached(config, ex.subtable_index)
              \/ (config.section_header # None /\ section_info = None)
              \/ (config.section_header = None /\ ex.subtable_index > 0 /\ header_row = 0)
           section_text ==
              IF config.section_header # None THEN StrV(section_info.section_text) ELSE StrV(<<>>)
           section_end_row ==
              IF config.section_header # None THEN section_info.end_row
              ELSE IF ex.subtable_index > 0 THEN header_row - 1
              ELSE 0
       IN  IF leave
           THEN /\ pc' = "finish"
                /\ UNCHANGED <<ex, sub, scan, trace, history>>
           ELSE /\ pc' = "sub_section"
                /\ ex' = [ex EXCEPT !.section_text = section_text,
                                    !.section_end_row = section_end_row,
                                    !.passes = @ + 1]
                /\ sub' = SubCall(section_end_row + 1, worksheet.max_row, section_text,
                                  ex.subtable_index)
                /\ scan' = ScanIdle
                /\ trace' = <<>>
                /\ history' = Append(history, PassStarted(ex, section_end_row + 1))
    /\ worksheet' =
          IF ex.current_row > worksheet.max_row \/ MaxSubtablesReached(config, ex.subtable_index)
          THEN worksheet
          ELSE IF config.section_header # None
          THEN CellsCreated(worksheet,
                            SectionSearchColumns(worksheet, config.section_header, ex.current_row))
          ELSE IF ex.subtable_index > 0
          THEN CellsCreated(worksheet, HeaderSearchColumns(worksheet, ex.current_row, config.columns))
          ELSE worksheet
    /\ UNCHANGED <<sql, other, calls, sheetnames, sheet_name, config, result>>

\* _extract_single_subtable, lines 159-172: the section header of a single pass
SubSection ==
    /\ pc = "sub_section"
    /\ IF sub.section_text = None /\ config.section_header # None
       THEN LET section_info ==
                   FindSectionHeaderFromRow(worksheet, config.section_header, sub.start_search_row)
            IN  IF section_info = None
                THEN /\ pc' = "returned"
                     /\ sub' = [sub EXCEPT !.df = EmptyFrame]
                ELSE /\ pc' = "sub_header"
                     /\ sub' = [sub EXCEPT !.section_text = StrV(section_info.section_text),
                                           !.search_start_row = section_info.end_row + 1]
       ELSE /\ pc' = "sub_header"
            /\ sub' = [sub EXCEPT !.search_start_row = sub.start_search_row,
                                  !.section_text = IF @ = None THEN StrV(<<>>) ELSE @]
    /\ worksheet' =
          IF sub.section_text = None /\ config.section_header # None
          THEN CellsCreated(worksheet,
                            SectionSearchColumns(worksheet, config.section_header, sub.start_search_row))
          ELSE worksheet
    /\ UNCHANGED <<sql, other, calls, history, sheetnames, sheet_name, config, ex, scan, result, trace>>

\* _extract_single_subtable, lines 175-177: locate the header row
SubHeader ==
    /\ pc = "sub_header"
    /\ LET header_row == FindHeaderRow(worksheet, sub.search_start_row, config.columns)
       IN  IF header_row = 0
           THEN /\ pc' = "returned"
                /\ sub' = [sub EXCEPT !.df = EmptyFrame]
           ELSE /\ pc' = "sub_columns"
                /\ sub' = [sub EXCEPT !.header_row = header_row]
    /\ worksheet' = CellsCreated(worksheet,
                                 HeaderSearchColumns(worksheet, sub.search_start_row, config.columns))
    /\ UNCHANGED <<sql, other, calls, history, sheetnames, sheet_name, config, ex, scan, result, trace>>

\* _extract_single_subtable, lines 179-190: map the columns and enter the row scan
SubColumns ==
    /\ pc = "sub_columns"
    /\ LET header_cells == CellsCreated(worksheet, FixedColumnIndexes(config.columns))
           found == FindColumnHeaders(header_cells, sub.header_row, config.columns, config)
       IN  IF found.raised
           THEN /\ pc' = "error"
                /\ result' = UnexpectedColumnsError(found)
                /\ UNCHANGED <<sub, scan, trace>>
           ELSE IF found.column_mapping = <<>>
           THEN /\ pc' = "returned"
                /\ sub' = [sub EXCEPT !.df = EmptyFrame]
                /\ UNCHANGED <<scan, result, trace>>
           ELSE /\ pc' = "rows"
                /\ sub' = [sub EXCEPT !.column_mapping = found.column_mapping]
                /\ scan' = [ScanIdle EXCEPT !.start_row = sub.header_row + 1,
                                            !.current_row = sub.header_row + 1,
                                            !.max_row = sub.end_search_row]
                /\ trace' = <<>>
                /\ UNCHANGED result
    /\ worksheet' = CellsCreated(worksheet, FixedColumnIndexes(config.columns))
    /\ UNCHANGED <<sql, other, calls, history, sheetnames, sheet_name, config, ex>>

\* variant of WithRowMetadata: row_start and row_end are the leftmost and the
\* rightmost bound column of the sheet
WithRowMetadataBySheetOrder(row_data, mapping, current_row) ==
    LET first == CHOOSE i \in 1..Len(mapping) : \A j \in 1..Len(mapping) : mapping[i].index <= mapping[j].index
        last == CHOOSE i \in 1..Len(mapping) : \A j \in 1..Len(mapping) : mapping[i].index >= mapping[j].index
    IN  [values |-> row_data.values,
         coords |-> row_data.coords,
         row_start |-> Coord(mapping[first].key, current_row),
         row_end |-> Coord(mapping[last].key, current_row),
         row_number |-> current_row]

\* lines 441-443: the row with its metadata
WithRowMetadata(row_data, mapping, current_row) ==
    [values |-> row_data.values,
     coords |-> row_data.coords,
     row_start |-> Coord(mapping[1].key, current_row),
     row_end |-> Coord(mapping[Len(mapping)].key, current_row),
     row_number |-> current_row]

\* variant of InvalidThresholdReached: > in place of >=
InvalidThresholdOffByOne(cfg, consecutive_invalid_rows) ==
    cfg.max_consecutive_invalid_rows > 0
        /\ consecutive_invalid_rows > cfg.max_consecutive_invalid_rows

\* variant of BlankThresholdReached: > in place of >=
BlankThresholdOffByOne(cfg, consecutive_blank_rows) ==
    cfg.max_consecutive_blank_rows > 0
        /\ consecutive_blank_rows > cfg.max_consecutive_blank_rows

\* variant of InvalidThresholdReached: a threshold of 0 is a threshold like any other
InvalidThresholdZeroHalts(cfg, consecutive_invalid_rows) ==
    consecutive_invalid_rows >= cfg.max_consecutive_invalid_rows

\* lines 467-474: the threshold tests made after an invalid row
InvalidThresholdReached(cfg, consecutive_invalid_rows) ==
    cfg.max_consecutive_invalid_rows > 0
        /\ consecutive_invalid_rows >= cfg.max_consecutive_invalid_rows

BlankThresholdReached(cfg, consecutive_blank_rows) ==
    cfg.max_consecutive_blank_rows > 0
        /\ consecutive_blank_rows >= cfg.max_consecutive_blank_rows

\* variant of BlankRowsAfter: a row that is not blank leaves the counter alone
BlankRowsNeverReset(is_blank, consecutive_blank_rows) ==
    IF is_blank THEN consecutive_blank_rows + 1 ELSE consecutive_blank_rows

\* lines 457-463: the blank counter after an invalid row
BlankRowsAfter(is_blank, consecutive_blank_rows) ==
    IF is_blank THEN consecutive_blank_rows + 1 ELSE 0

\* variant of NextRow: the row number is not advanced
NextRowStuck(row) == row

\* line 476: current_row += 1
NextRow(row) == row + 1

\* history entry of one iteration: the row, its outcome (stop, valid, invalid), the
\* is_blank flag of line 436 and the two counters after the iteration
Processed(row, kind, is_blank, invalid_rows, blank_rows) ==
    [row |-> row, kind |-> kind, blank |-> is_blank,
     consecutive_invalid_rows |-> invalid_rows, consecutive_blank_rows |-> blank_rows]

\* _extract_rows, lines 421-476: one iteration of the row scan
ExtractRowsStep ==
    /\ pc = "rows"
    /\ scan.current_row <= scan.max_row
    /\ LET mapping == sub.column_mapping
           row == scan.current_row
           end_check == CheckEndCondition(worksheet, row, mapping, config)
           row_data == ExtractSingleRow(worksheet, row, mapping)
           is_blank == IsBlank(row_data, mapping)
           valid == IsValidRow(row_data, mapping, config)
           invalid_rows == scan.consecutive_invalid_rows + 1
           blank_rows == BlankRowsAfter(is_blank, scan.consecutive_blank_rows)
       IN  IF end_check
           THEN /\ pc' = "rows_done"
                /\ scan' = [scan EXCEPT !.stop = "end_condition"]
                /\ trace' = Append(trace, Processed(row, "stop", is_blank,
                                       scan.consecutive_invalid_rows, scan.consecutive_blank_rows))
           ELSE IF valid
           THEN /\ pc' = "rows"
                /\ scan' = [scan EXCEPT !.rows_data = Append(@, WithRowMetadata(row_data, mapping, row)),
                                        !.consecutive_invalid_rows = 0,
                                        !.consecutive_blank_rows = 0,
                                        !.current_row = NextRow(row)]
                /\ trace' = Append(trace, Processed(row, "valid", is_blank, 0, 0))
           ELSE /\ trace' = Append(trace, Processed(row, "invalid", is_blank, invalid_rows, blank_rows))
                /\ IF InvalidThresholdReached(config, invalid_rows)
                   THEN /\ pc' = "rows_done"
                        /\ scan' = [scan EXCEPT !.consecutive_invalid_rows = invalid_rows,
                                                !.consecutive_blank_rows = blank_rows,
                                                !.stop = "invalid_threshold"]
                   ELSE IF BlankThresholdReached(config, blank_rows)
                   THEN /\ pc' = "rows_done"
                        /\ scan' = [scan EXCEPT !.consecutive_invalid_rows = invalid_rows,
                                                !.consecutive_blank_rows = blank_rows,
                                                !.stop = "blank_threshold"]
                   ELSE /\ pc' = "rows"
                        /\ scan' = [scan EXCEPT !.consecutive_invalid_rows = invalid_rows,
                                                !.consecutive_blank_rows = blank_rows,
                                                !.current_row = NextRow(row)]
    /\ worksheet' = CellsCreated(worksheet,
                       EndConditionColumns(worksheet, scan.current_row, sub.column_mapping, config))
    /\ UNCHANGED <<sql, other, calls, history, sheetnames, sheet_name, config, ex, sub, result>>

\* _extract_rows, line 421: the loop ends when the row extent is exceeded
ExtractRowsExhausted ==
    /\ pc = "rows"
    /\ scan.current_row > scan.max_row
    /\ pc' = "rows_done"
    /\ scan' = [scan EXCEPT !.stop = "exhausted"]
    /\ UNCHANGED <<sql, other, calls, history, sheetnames, worksheet, sheet_name, config, ex, sub, result, trace>>

\* variant of DataFrame: every row carries the index 0
DataFrameIndexZero(rows_data, section_text, sheet, subtable_index) ==
    [i \in 1..Len(rows_data) |->
        [values |-> rows_data[i].values,
         coords |-> rows_data[i].coords,
         row_start |-> rows_data[i].row_start,
         row_end |-> rows_data[i].row_end,
         row_number |-> rows_data[i].row_number,
         section_header |-> section_text,
         sheet_name |-> sheet,
         subtable_index |-> 0]]

\* lines 196-201: the frame of the rows with the metadata columns
DataFrame(rows_data, section_text, sheet, subtable_index) ==
    [i \in 1..Len(rows_data) |->
        [values |-> rows_data[i].values,
         coords |-> rows_data[i].coords,
         row_start |-> rows_data[i].row_start,
         row_end |-> rows_data[i].row_end,
         row_number |-> rows_data[i].row_number,
         section_header |-> section_text,
         sheet_name |-> sheet,
         subtable_index |-> subtable_index]]

\* _extract_single_subtable, lines 192-203: build the frame of the pass
SubtableReturn ==
    /\ pc = "rows_done"
    /\ pc' = "returned"
    /\ sub' = [sub EXCEPT !.df = DataFrame(scan.rows_data, Str(sub.section_text), sheet_name,
                                           sub.subtable_index)]
    /\ UNCHANGED <<sql, other, calls, history, sheetnames, worksheet, sheet_name, config, ex, scan, result, trace>>

\* extract(), line 41: single-subtable mode returns the frame of the one pass
ReturnSingle ==
    /\ pc = "returned"
    /\ ~config.extract_multiple
    /\ pc' = "done"
    /\ result' = [kind |-> "frame", df |-> sub.df]
    /\ UNCHANGED <<sql, other, calls, history, sheetnames, worksheet, sheet_name, config, ex, sub, scan, trace>>

\* variant of GapBudgetSpent: > in place of >=
GapBudgetOffByOne(cfg, gap_rows) == gap_rows > cfg.max_blank_rows_between_subtables

\* line 119: consecutive_blank_rows >= config.max_blank_rows_between_subtables
GapBudgetSpent(cfg, gap_rows) == gap_rows >= cfg.max_blank_rows_between_subtables

\* variant of MaxRowNumber: the number of the first row of the frame
FirstRowNumber(df) == df[1].row_number

\* subtable_df['row_number'].max()
MaxRowNumber(df) ==
    CHOOSE n \in {df[i].row_number : i \in 1..Len(df)} :
        \A i \in 1..Len(df) : df[i].row_number <= n

\* variant of RowAfterEmptyPass: the loop stays at the row it searched from
RowAfterEmptyPassStays(locals) == locals.current_row

\* line 116: current_row = section_end_row + 1 if config.section_header else current_row + 1
RowAfterEmptyPass(locals) ==
    IF config.section_header # None THEN locals.section_end_row + 1 ELSE locals.current_row + 1

\* extract(), lines 102-122: account for the pass and advance current_row
MultiAfter ==
    /\ pc = "returned"
    /\ config.extract_multiple
    /\ IF sub.df # EmptyFrame
       THEN /\ pc' = "loop"
            /\ ex' = [ex EXCEPT !.all_subtables = Append(@, sub.df),
                                !.subtable_index = @ + 1,
                                !.consecutive_blank_rows = 0,
                                !.current_row = MaxRowNumber(sub.df) + 1]
       ELSE LET gap_rows == ex.consecutive_blank_rows + 1
            IN  /\ ex' = [ex EXCEPT !.consecutive_blank_rows = gap_rows,
                                    !.current_row = RowAfterEmptyPass(ex)]
                /\ pc' = IF GapBudgetSpent(config, gap_rows) THEN "finish" ELSE "loop"
    /\ history' = PassReturned(history, sub.df)
    /\ UNCHANGED <<sql, other, calls, sheetnames, worksheet, sheet_name, config, sub, scan, result, trace>>

RECURSIVE Concat(_)
\* pd.concat(all_subtables, ignore_index=True)
Concat(frames) == IF frames = <<>> THEN <<>> ELSE Head(frames) \o Concat(Tail(frames))

\* extract(), lines 124-138: combine the subtables or return them as a list
Finish ==
    /\ pc = "finish"
    /\ pc' = "done"
    /\ result' = IF ex.all_subtables = <<>> THEN [kind |-> "frame", df |-> EmptyFrame]
                 ELSE IF config.combine_subtables
                 THEN [kind |-> "frame", df |-> Concat(ex.all_subtables)]
                 ELSE [kind |-> "list", frames |-> ex.all_subtables]
    /\ UNCHANGED <<sql, other, calls, history, sheetnames, worksheet, sheet_name, config, ex, sub, scan, trace>>

-----------------------------------------------------------------------------
(* Inputs of the extraction call: sheets and configurations *)

\* worksheet with the given rows (each a tuple of max_column cells)
Sheet(rows, max_column, merged_cells) ==
    [max_row |-> Len(rows), max_column |-> max_column,
     cells |-> rows, merged_cells |-> merged_cells]

\* all sequences of length n over the set S
RECURSIVE SeqsOf(_, _)
SeqsOf(S, n) ==
    IF n = 0 THEN {<<>>}
    ELSE {Append(q, x) : q \in SeqsOf(S, n - 1), x \in S}

T_colA == <<"c", "o", "l", "A">>
T_colB == <<"c", "o", "l", "B">>
T_colC == <<"c", "o", "l", "C">>
T_Data == <<"D", "a", "t", "a">>

\* re.compile(r".*(data|table).*", re.IGNORECASE)
P_DataOrTable ==
    CompileIC(Cat(<<Star(AnyChar), Alt(Word(<<"d", "a", "t", "a">>), Word(<<"t", "a", "b", "l", "e">>)),
                    Star(AnyChar)>>))
\* re.compile(r"\d+")
P_Digits == Compile(Plus(Digit))
SectionInA == SectionHeaderConfig(P_DataOrTable, "A", FALSE, 0, 0)

ColA(value_pattern) == ColumnConfig("A", CompileIC(Word(T_colA)), value_pattern)
ColB(value_pattern) == ColumnConfig("B", CompileIC(Word(T_colB)), value_pattern)
ColC(value_pattern) == ColumnConfig("C", CompileIC(Word(T_colC)), value_pattern)

\* data rows over the columns A and B
DataRowKinds ==
    {<<TextCell(<<"1">>), TextCell(<<"x">>)>>,       \* both filled
     <<EmptyCell, EmptyCell>>,                       \* blank
     <<TextCell(<<"1", "a">>), EmptyCell>>,          \* only a prefix of A is digits
     <<TextCell(<<"a">>), TextCell(<<"x">>)>>}       \* A holds no digit

\* section label in row 1, headers in row 2, then MaxDataRows data rows
ScanSheets ==
    {Sheet(<<<<TextCell(T_Data), EmptyCell>>, <<TextCell(T_colA), TextCell(T_colB)>>>> \o rows,
           2, {}) : rows \in SeqsOf(DataRowKinds, MaxDataRows)}

\* (max_consecutive_invalid_rows, max_consecutive_blank_rows)
Thresholds == {<<0, 0>>, <<1, 0>>, <<2, 0>>, <<0, 1>>, <<0, 2>>, <<2, 1>>}

ScanConfigs ==
    {[DefaultConfig EXCEPT
        !.columns = <<ColA(vp), ColB(AcceptAny)>>,
        !.section_header = SectionInA,
        !.row_validation = [minimum_filled_columns |-> m],
        !.max_consecutive_invalid_rows = t[1],
        !.max_consecutive_blank_rows = t[2]] :
      vp \in {AcceptAny, P_Digits}, m \in {0, 1, 2}, t \in Thresholds}

T_Sheet == "Test Sheet"

ScanInputs ==
    {[ws |-> ws, config |-> cfg, sheet_name |-> T_Sheet] : ws \in ScanSheets, cfg \in ScanConfigs}

\* header rows over the columns A..D, one data row and one blank row below
HeaderSheets ==
    {Sheet(<<<<TextCell(T_Data), EmptyCell, EmptyCell, EmptyCell>>,
             <<TextCell(T_colA), b, c, d>>,
             <<TextCell(<<"1">>), TextCell(<<"x">>), TextCell(<<"y">>), TextCell(<<"z">>)>>,
             <<EmptyCell, EmptyCell, EmptyCell, EmptyCell>>>>, 4, {}) :
        b \in {TextCell(T_colB), EmptyCell},
        c \in {EmptyCell, TextCell(T_colC), TextCell(<<" ">>)},
        d \in {EmptyCell, TextCell(<<"d", "X">>), TextCell(<<"x">>)}}

\* re.compile(r"col.", re.IGNORECASE)
P_colAny == CompileIC(Cat(<<Word(<<"c", "o", "l">>), AnyChar>>))

\* re.compile(r"d.*")
P_dAny == Compile(Cat(<<Lit("d"), Star(AnyChar)>>))

HeaderConfigs ==
    {[DefaultConfig EXCEPT
        !.columns = cols,
        !.section_header = SectionInA,
        !.discoverable_headers = disc,
        !.strict_columns = strict,
        !.max_consecutive_blank_rows = 1] :
      cols \in {<<ColA(AcceptAny), ColB(AcceptAny)>>,
                <<ColB(AcceptAny), ColC(AcceptAny)>>,
                <<ColC(AcceptAny), ColA(AcceptAny)>>},
      disc \in {<<>>, <<P_dAny>>, <<P_colAny, P_dAny>>, <<P_dAny, AcceptAny>>},
      strict \in BOOLEAN}

HeaderInputs ==
    {[ws |-> ws, config |-> cfg, sheet_name |-> T_Sheet] : ws \in HeaderSheets, cfg \in HeaderConfigs}

\* two section-labelled blocks; the header row of the second one may hold an extra header
BlockSheets ==
    {Sheet(<<<<TextCell(T_Data), EmptyCell, EmptyCell>>,
             <<TextCell(T_colA), TextCell(T_colB), EmptyCell>>,
             <<TextCell(<<"1">>), TextCell(<<"x">>), EmptyCell>>,
             <<EmptyCell, EmptyCell, EmptyCell>>,
             <<TextCell(T_Data), EmptyCell, EmptyCell>>,
             <<TextCell(T_colA), TextCell(T_colB), c>>,
             <<TextCell(<<"2">>), TextCell(<<"x">>), EmptyCell>>>>, 3, {}) :
        c \in {EmptyCell, TextCell(<<"x">>)}}

BlockConfigs ==
    {[DefaultConfig EXCEPT
        !.columns = <<ColA(P_Digits), ColB(AcceptAny)>>,
        !.section_header = sh,
        !.row_validation = [minimum_filled_columns |-> 1],
        !.max_consecutive_invalid_rows = n,
        !.strict_columns = strict,
        !.extract_multiple = multi,
        !.max_subtables = ms,
        !.max_blank_rows_between_subtables = gap,
        !.combine_subtables = comb] :
      sh \in {SectionInA, None}, n \in {0, 1}, strict \in BOOLEAN, multi \in BOOLEAN,
      ms \in {0, 1}, gap \in {2, 50}, comb \in BOOLEAN}

BlockInputs ==
    {[ws |-> ws, config |-> cfg, sheet_name |-> name] :
        ws \in BlockSheets, cfg \in BlockConfigs, name \in {T_Sheet, "Missing"}}

T_SampleDataReport ==
    <<"S", "a", "m", "p", "l", "e", " ", "D", "a", "t", "a", " ", "R", "e", "p", "o", "r", "t">>

\* the sheet of create_test_file, with rows up to extent (rows 7.. are empty)
TestFileSheet(extent) ==
    Sheet([r \in 1..extent |->
             CASE r = 1 -> <<TextCell(T_SampleDataReport), EmptyCell, EmptyCell>>
               [] r = 2 -> <<TextCell(<<>>), EmptyCell, EmptyCell>>
               [] r = 3 -> <<TextCell(T_colA), TextCell(T_colB), TextCell(T_colC)>>
               [] r = 4 -> <<TextCell(<<"v", "a", "l", "u", "e", "1">>),
                             TextCell(<<"v", "a", "l", "u", "e", "2">>),
                             TextCell(<<"v", "a", "l", "u", "e", "3">>)>>
               [] r = 5 -> <<TextCell(<<"t", "e", "s", "t", "1">>), TextCell(<<>>),
                             TextCell(<<"t", "e", "s", "t", "3">>)>>
               [] r = 6 -> <<TextCell(<<>>), TextCell(<<"o", "n", "l", "y", "_", "b">>),
                             TextCell(<<>>)>>
               [] OTHER -> <<EmptyCell, EmptyCell, EmptyCell>>],
          3, {})

\* the configuration of simple_test.main, with the row-level options varied
SimpleTestConfigs ==
    {[DefaultConfig EXCEPT
        !.columns = <<ColA(AcceptAny), ColB(AcceptAny), ColC(AcceptAny)>>,
        !.section_header = SectionInA,
        !.row_validation = [minimum_filled_columns |-> m],
        !.max_consecutive_invalid_rows = n,
        !.max_consecutive_blank_rows = b] :
      m \in {0, 1, 2, 3}, n \in {0, 5}, b \in {0, 1, 2}}

ScenarioInputs ==
    {[ws |-> TestFileSheet(extent), config |-> cfg, sheet_name |-> T_Sheet] :
        extent \in {6, 8, 9}, cfg \in SimpleTestConfigs}

MergedRange(min_row, max_row, min_col, max_col) ==
    [min_row |-> min_row, max_row |-> max_row, min_col |-> min_col, max_col |-> max_col]

\* data rows with an end marker in the unbound column C of row 4 and, possibly, a
\* merged range over rows 5-6 in the bound column B or in the unbound column C
StopSheets ==
    {Sheet(<<<<TextCell(T_Data), EmptyCell, EmptyCell>>,
             <<TextCell(T_colA), TextCell(T_colB), EmptyCell>>,
             <<TextCell(<<"1">>), TextCell(<<"x">>), EmptyCell>>,
             <<TextCell(<<"2">>), TextCell(<<"x">>), TextCell(<<"E", "n", "d">>)>>,
             <<TextCell(<<"3">>), EmptyCell, EmptyCell>>,
             <<TextCell(<<"4">>), EmptyCell, EmptyCell>>>>, 3, merged) :
        merged \in {{}, {MergedRange(5, 6, 2, 2)}, {MergedRange(5, 6, 3, 3)}}}

StopConfigs ==
    {[DefaultConfig EXCEPT
        !.columns = <<ColA(P_Digits), ColB(AcceptAny)>>,
        !.section_header = SectionInA,
        !.row_validation = [minimum_filled_columns |-> 1],
        !.stop_on_merged_cell = som,
        !.end_pattern = ep,
        !.end_pattern_column = epc] :
      som \in BOOLEAN,
      ep \in {None, Compile(Word(<<"E", "n", "d">>))},
      epc \in {"", "A", "C"}}

StopInputs ==
    {[ws |-> ws, config |-> cfg, sheet_name |-> T_Sheet] : ws \in StopSheets, cfg \in StopConfigs}


\* cells holding the number 0, the boolean False and a number; column B may repeat
\* the header text of column A
ValueSheets ==
    {Sheet(<<<<TextCell(T_Data), EmptyCell>>,
             <<TextCell(T_colA), b>>,
             <<NumCell(0), EmptyCell>>,
             <<Cell(BoolV(FALSE), "b"), TextCell(<<"x">>)>>,
             <<NumCell(7), TextCell(<<"8">>)>>>>, 2, {}) :
        b \in {TextCell(T_colB), TextCell(T_colA)}}

ValueConfigs ==
    {[DefaultConfig EXCEPT
        !.columns = <<ColA(vp), ColumnConfig("B", P_colAny, AcceptAny)>>,
        !.section_header = SectionInA,
        !.row_validation = [minimum_filled_columns |-> m],
        !.max_consecutive_invalid_rows = t[1],
        !.max_consecutive_blank_rows = t[2]] :
      vp \in {AcceptAny, P_Digits}, m \in {0, 1, 2}, t \in {<<0, 0>>, <<2, 0>>, <<0, 1>>}}

ValueInputs ==
    {[ws |-> ws, config |-> cfg, sheet_name |-> T_Sheet] : ws \in ValueSheets, cfg \in ValueConfigs}

\* two section-labelled blocks separated by three blank rows
TwoBlockSheet ==
    Sheet(<<<<TextCell(T_Data), EmptyCell>>,
            <<TextCell(T_colA), TextCell(T_colB)>>,
            <<TextCell(<<"1">>), TextCell(<<"x">>)>>,
            <<TextCell(<<"2">>), TextCell(<<"x">>)>>,
            <<EmptyCell, EmptyCell>>,
            <<EmptyCell, EmptyCell>>,
            <<EmptyCell, EmptyCell>>,
            <<TextCell(T_Data), EmptyCell>>,
            <<TextCell(T_colA), TextCell(T_colB)>>,
            <<TextCell(<<"3">>), TextCell(<<"x">>)>>>>, 2, {})

\* multi-subtable extraction with the default gap budget, combined; the options that
\* can stop a row scan are varied
TwoBlockConfigs ==
    {[DefaultConfig EXCEPT
        !.columns = <<ColA(vp), ColB(AcceptAny)>>,
        !.section_header = SectionInA,
        !.row_validation = [minimum_filled_columns |-> m],
        !.max_consecutive_invalid_rows = t[1],
        !.max_consecutive_blank_rows = t[2],
        !.extract_multiple = TRUE,
        !.max_subtables = ms,
        !.max_blank_rows_between_subtables = 50,
        !.combine_subtables = TRUE] :
      vp \in {AcceptAny, P_Digits}, m \in {0, 1},
      t \in {<<0, 0>>, <<0, 2>>, <<0, 3>>, <<3, 0>>}, ms \in {0, 2}}

TwoBlockInputs ==
    {[ws |-> TwoBlockSheet, config |-> cfg, sheet_name |-> T_Sheet] : cfg \in TwoBlockConfigs}

\* three blocks; the only data row of the first block is valid or not, the one of
\* the second block is not valid, the one of the third block is valid
ThreeBlockSheets ==
    {Sheet(<<<<TextCell(T_Data), EmptyCell>>,
             <<TextCell(T_colA), TextCell(T_colB)>>,
             <<a, TextCell(<<"x">>)>>,
             <<TextCell(T_Data), EmptyCell>>,
             <<TextCell(T_colA), TextCell(T_colB)>>,
             <<TextCell(<<"a">>), TextCell(<<"x">>)>>,
             <<TextCell(T_Data), EmptyCell>>,
             <<TextCell(T_colA), TextCell(T_colB)>>,
             <<TextCell(<<"2">>), TextCell(<<"x">>)>>>>, 2, {}) :
        a \in {TextCell(<<"a">>), TextCell(<<"1">>)}}

\* a section-header pattern that no cell of the sheets matches
SectionAbsent == SectionHeaderConfig(Compile(Word(<<"T", "o", "t", "a", "l">>)), "A", FALSE, 0, 0)

ThreeBlockConfigs ==
    {[DefaultConfig EXCEPT
        !.columns = <<ColA(P_Digits), ColB(AcceptAny)>>,
        !.section_header = sh,
        !.row_validation = [minimum_filled_columns |-> 1],
        !.max_consecutive_invalid_rows = n,
        !.extract_multiple = multi,
        !.max_blank_rows_between_subtables = gap] :
      sh \in {SectionInA, None, SectionAbsent}, n \in {0, 1}, multi \in BOOLEAN,
      gap \in {1, 2, 50}}

ThreeBlockInputs ==
    {[ws |-> ws, config |-> cfg, sheet_name |-> T_Sheet] :
        ws \in ThreeBlockSheets, cfg \in ThreeBlockConfigs}

\* Inputs of the header-row locator: a section label in row 1 and the header row
\* far below it, at the edge of the search window
TallRows == 13

TallSheets ==
    {Sheet([r \in 1..TallRows |->
               IF r = 1 THEN <<TextCell(T_Data), EmptyCell>>
               ELSE IF r = h THEN <<TextCell(T_colA), TextCell(T_colB)>>
               ELSE IF r = h + 1 THEN <<TextCell(<<"1">>), TextCell(<<"x">>)>>
               ELSE <<EmptyCell, EmptyCell>>], 2, {}) :
        h \in {10, 11, 12}}

TallConfigs ==
    {[DefaultConfig EXCEPT
        !.columns = <<ColA(P_Digits), ColB(AcceptAny)>>,
        !.section_header = sh,
        !.extract_multiple = FALSE] :
      sh \in {SectionInA, None}}

TallInputs ==
    {[ws |-> ws, config |-> cfg, sheet_name |-> T_Sheet] : ws \in TallSheets, cfg \in TallConfigs}

\* Inputs in which the configuration names columns that the sheet does not reach: an
\* optional column C and an end-pattern column D on a sheet two columns wide
NarrowSheet ==
    Sheet(<<<<TextCell(T_Data), EmptyCell>>,
            <<TextCell(T_colA), TextCell(T_colB)>>,
            <<TextCell(<<"1">>), TextCell(<<"x">>)>>,
            <<TextCell(<<"2">>), TextCell(<<"y">>)>>>>, 2, {})

NarrowConfigs ==
    {[DefaultConfig EXCEPT
        !.columns = cols,
        !.section_header = SectionInA,
        !.end_pattern = IF epc = "" THEN None ELSE Compile(Word(<<"E", "n", "d">>)),
        !.end_pattern_column = epc,
        !.discoverable_headers = disc,
        !.extract_multiple = multi] :
      cols \in {<<ColA(P_Digits), ColB(AcceptAny)>>,
                <<ColA(P_Digits), ColB(AcceptAny), ColC(AcceptAny)>>},
      epc \in {"", "D"},
      disc \in {<<>>, <<AcceptAny>>},
      multi \in BOOLEAN}

NarrowInputs ==
    {[ws |-> NarrowSheet, config |-> cfg, sheet_name |-> T_Sheet] : cfg \in NarrowConfigs}

Inputs ==
    NarrowInputs \cup ScanInputs \cup HeaderInputs \cup BlockInputs \cup ScenarioInputs \cup StopInputs
        \cup ValueInputs \cup TwoBlockInputs \cup ThreeBlockInputs \cup TallInputs

Init ==
    /\ sheetnames = {T_Sheet}
    /\ \E input \in Inputs :
          /\ worksheet = input.ws
          /\ config = input.config
          /\ sheet_name = input.sheet_name
    /\ pc = "start"
    /\ ex = ExIdle
    /\ sub = SubIdle
    /\ scan = ScanIdle
    /\ result = NoResult
    /\ trace = <<>>
    /\ history = <<>>
    /\ calls = <<>>
    /\ other = NoOther
    /\ sql = NoSql

Next ==
    \/ Extract
    \/ MultiLoop
    \/ SubSection
    \/ SubHeader
    \/ SubColumns
    \/ ExtractRowsStep
    \/ ExtractRowsExhausted
    \/ SubtableReturn
    \/ ReturnSingle
    \/ MultiAfter
    \/ Finish

Spec == Init /\ [][Next]_vars

-----------------------------------------------------------------------------
(* Several calls on one extractor *)

\* the arguments of the calls made on one extractor: a multi-subtable call, a strict
\* multi-subtable call returning a list, a single-subtable call and a call naming a
\* sheet the workbook does not hold
RepeatArgs ==
    LET base == [DefaultConfig EXCEPT
                    !.columns = <<ColA(P_Digits), ColB(AcceptAny)>>,
                    !.row_validation = [minimum_filled_columns |-> 1]]
        multi == [base EXCEPT !.section_header = SectionInA,
                              !.max_consecutive_invalid_rows = 1,
                              !.extract_multiple = TRUE]
    IN  {[sheet_name |-> T_Sheet, config |-> multi],
         [sheet_name |-> T_Sheet,
          config |-> [multi EXCEPT !.strict_columns = TRUE, !.combine_subtables = FALSE]],
         [sheet_name |-> T_Sheet, config |-> base],
         [sheet_name |-> T_Sheet,
          config |-> [multi EXCEPT !.end_pattern = Compile(Word(<<"E", "n", "d">>)),
                                   !.end_pattern_column = "D"]],
         [sheet_name |-> "Missing", config |-> multi]}

InitRepeat ==
    /\ sheetnames = {T_Sheet}
    /\ worksheet \in BlockSheets
    /\ \E args \in RepeatArgs :
          /\ sheet_name = args.sheet_name
          /\ config = args.config
    /\ pc = "start"
    /\ ex = ExIdle
    /\ sub = SubIdle
    /\ scan = ScanIdle
    /\ result = NoResult
    /\ trace = <<>>
    /\ history = <<>>
    /\ calls = <<>>
    /\ other = NoOther
    /\ sql = NoSql

\* a finished call, as the caller saw it
Finished(name, cfg, outcome) == [sheet_name |-> name, config |-> cfg, result |-> outcome]

\* the caller calls extract() again on the same SubtableExtractor (lines 12-21: the
\* object holds the workbook and the debug flag); the frames of the finished call
\* are dead, they stay as they are and the new call builds its own
CallAgain ==
    /\ pc \in {"done", "error"}
    /\ Len(calls) < MaxCalls
    /\ calls' = Append(calls, Finished(sheet_name, config, result))
    /\ \E args \in RepeatArgs :
          /\ sheet_name' = args.sheet_name
          /\ config' = args.config
    /\ pc' = "start"
    /\ result' = NoResult
    /\ trace' = <<>>
    /\ history' = <<>>
    /\ UNCHANGED <<sheetnames, worksheet, ex, sub, scan, other, sql>>

NextRepeat == Next \/ CallAgain

SpecRepeat == InitRepeat /\ [][NextRepeat]_vars

-----------------------------------------------------------------------------
(* Two calls at a time: two threads call extract() on one extractor, on the same
   sheet or on two sheets of the workbook, and their steps interleave *)

\* a second sheet of the workbook
T_EdgeCases == "Edge Cases"

\* the grid slot of a call that shares the running call's sheet
NoGrid == Sheet(<<>>, 0, {})

\* variant of Frame: the rows accumulated by the row scan are not kept with the call
FrameWithoutRows(name, cfg, at, locals, sub_locals, scan_locals, outcome, rows, passes) ==
    [sheet_name |-> name, config |-> cfg, pc |-> at, ex |-> locals,
     sub |-> sub_locals, scan |-> [scan_locals EXCEPT !.rows_data = <<>>], result |-> outcome,
     trace |-> rows, history |-> passes]

\* all that one call of extract() owns: its arguments, its position and the locals
\* of extract(), _extract_single_subtable() and _extract_rows()
Frame(name, cfg, at, locals, sub_locals, scan_locals, outcome, rows, passes) ==
    [sheet_name |-> name, config |-> cfg, pc |-> at, ex |-> locals,
     sub |-> sub_locals, scan |-> scan_locals, result |-> outcome,
     trace |-> rows, history |-> passes]

\* a call that has not taken a step yet
NewCall(name, cfg) == Frame(name, cfg, "start", ExIdle, SubIdle, ScanIdle, NoResult, <<>>, <<>>)

PairSheets ==
    {Sheet(<<<<TextCell(T_Data), EmptyCell, EmptyCell>>,
             <<TextCell(T_colA), TextCell(T_colB), TextCell(T_colC)>>,
             <<TextCell(<<"1">>), TextCell(<<"x">>), TextCell(<<"y">>)>>,
             <<TextCell(<<"2">>), TextCell(<<"x">>), TextCell(<<"E", "n", "d">>)>>>>, 3, {}),
     Sheet(<<<<TextCell(T_Data), EmptyCell, EmptyCell>>,
             <<TextCell(T_colA), TextCell(T_colB), EmptyCell>>,
             <<TextCell(<<"1">>), TextCell(<<"x">>), EmptyCell>>,
             <<EmptyCell, EmptyCell, EmptyCell>>,
             <<TextCell(T_Data), EmptyCell, EmptyCell>>,
             <<TextCell(T_colA), TextCell(T_colB), TextCell(<<"x">>)>>,
             <<TextCell(<<"2">>), TextCell(<<"x">>), EmptyCell>>>>, 3, {})}

\* a single-subtable call, a multi-subtable call with an end pattern in column C, and
\* a strict call that fails on the header of column B; every column they name lies
\* within the sheets, so that no call creates a cell
PairConfigs ==
    LET base == [DefaultConfig EXCEPT
                    !.columns = <<ColA(P_Digits), ColB(AcceptAny)>>,
                    !.section_header = SectionInA,
                    !.row_validation = [minimum_filled_columns |-> 1]]
    IN  {base,
         [base EXCEPT !.max_consecutive_invalid_rows = 1,
                      !.extract_multiple = TRUE,
                      !.end_pattern = Compile(Word(<<"E", "n", "d">>)),
                      !.end_pattern_column = "C"],
         [base EXCEPT !.columns = <<ColA(P_Digits)>>,
                      !.strict_columns = TRUE,
                      !.extract_multiple = TRUE]}

InitPair ==
    /\ sheetnames = {T_Sheet, T_EdgeCases}
    /\ \E first \in PairSheets, second \in PairSheets, shared \in BOOLEAN :
       \E cfg \in PairConfigs, other_cfg \in PairConfigs :
          /\ shared => second = first
          /\ worksheet = first
          /\ sheet_name = T_Sheet
          /\ config = cfg
          /\ other = [phase |-> "together",
                      shared |-> shared,
                      frame |-> NewCall(IF shared THEN T_Sheet ELSE T_EdgeCases, other_cfg),
                      worksheet |-> IF shared THEN NoGrid ELSE second,
                      original |-> first,
                      original_other |-> second,
                      interleaved |-> FALSE]
    /\ pc = "start"
    /\ ex = ExIdle
    /\ sub = SubIdle
    /\ scan = ScanIdle
    /\ result = NoResult
    /\ trace = <<>>
    /\ history = <<>>
    /\ calls = <<>>
    /\ sql = NoSql

\* a call is under way: it has taken a step and has not returned
UnderWay(at) == at \notin {"start", "done", "error"}

\* the scheduler takes the running thread off and lets the other one run: each call
\* keeps its own frame; a sheet that both calls read is the same object for both
Switch ==
    /\ other.phase = "together"
    /\ other.frame.pc \notin {"done", "error"}
    /\ other' = [other EXCEPT
                    !.frame = Frame(sheet_name, config, pc, ex, sub, scan, result, trace, history),
                    !.worksheet = IF other.shared THEN NoGrid ELSE worksheet,
                    !.original = other.original_other,
                    !.original_other = other.original,
                    !.interleaved = @ \/ (UnderWay(pc) /\ UnderWay(other.frame.pc))]
    /\ worksheet' = IF other.shared THEN worksheet ELSE other.worksheet
    /\ sheet_name' = other.frame.sheet_name
    /\ config' = other.frame.config
    /\ pc' = other.frame.pc
    /\ ex' = other.frame.ex
    /\ sub' = other.frame.sub
    /\ scan' = other.frame.scan
    /\ result' = other.frame.result
    /\ trace' = other.frame.trace
    /\ history' = other.frame.history
    /\ UNCHANGED <<sheetnames, calls, sql>>

\* for comparison: once both calls have returned, the call that returned last is
\* made again, alone, on its sheet as it was before the two calls
RunAlone ==
    /\ other.phase = "together"
    /\ pc \in {"done", "error"}
    /\ other.frame.pc \in {"done", "error"}
    /\ calls' = <<Finished(sheet_name, config, result)>>
    /\ other' = [other EXCEPT !.phase = "alone"]
    /\ worksheet' = other.original
    /\ pc' = "start"
    /\ ex' = ExIdle
    /\ sub' = SubIdle
    /\ scan' = ScanIdle
    /\ result' = NoResult
    /\ trace' = <<>>
    /\ history' = <<>>
    /\ UNCHANGED <<sheetnames, sheet_name, config, sql>>

NextPair == Next \/ Switch \/ RunAlone

SpecPair == InitPair /\ [][NextPair]_vars

-----------------------------------------------------------------------------
(* sqlglot_helpers.expressions_normalize: expression trees and their normalisation *)

\* sqlglot expression nodes: exp.Column, exp.Paren, exp.And, exp.Or, exp.Not,
\* exp.Select, exp.Union, exp.Drop
Column(name) == [t |-> "Column", name |-> name]
Paren(this) == [t |-> "Paren", this |-> this]
And(this, expression) == [t |-> "And", this |-> this, expression |-> expression]
Or(this, expression) == [t |-> "Or", this |-> this, expression |-> expression]
Not(this) == [t |-> "Not", this |-> this]
Select(this) == [t |-> "Select", this |-> this]
Union(this, expression) == [t |-> "Union", this |-> this, expression |-> expression]
Drop(name) == [t |-> "Drop", name |-> name]

Unary == {"Paren", "Not", "Select"}
Binary == {"And", "Or", "Union"}

\* the classes of a node: its own and those it derives from (exp.Union is a
\* exp.SetOperation)
ClassesOf(node) == IF node.t = "Union" THEN {"Union", "SetOperation"} ELSE {node.t}

\* isinstance(node, classes)
IsInstance(node, classes) == ClassesOf(node) \cap classes # {}

QUERY_ROOTS ==
    {"Select", "SetOperation", "With", "Insert", "Update", "Delete", "Merge", "Create",
     "Drop", "Alter"}

\* variant of _unwrap_paren: one wrapper is removed, not all
UnwrapOneParen(node) == IF IsInstance(node, {"Paren"}) THEN node.this ELSE node

\* _unwrap_paren: while isinstance(node, exp.Paren): node = node.this
RECURSIVE _unwrap_paren(_)
_unwrap_paren(node) == IF IsInstance(node, {"Paren"}) THEN _unwrap_paren(node.this) ELSE node

is_full_query(node) == IsInstance(_unwrap_paren(node), QUERY_ROOTS)

\* expr.copy().transform(lambda n: n.this if isinstance(n, exp.Paren) else n):
\* Expression.transform walks the copy from the root down and puts fun(node) in the
\* place of each node it visits; a node that fun has replaced is not walked into, so
\* the tree that takes the place of a Paren is left as it is
RECURSIVE strip_parens(_)
strip_parens(expr) ==
    IF IsInstance(expr, {"Paren"}) THEN expr.this
    ELSE IF expr.t \in Unary THEN [expr EXCEPT !.this = strip_parens(expr.this)]
    ELSE IF expr.t \in Binary
    THEN [expr EXCEPT !.this = strip_parens(expr.this),
                      !.expression = strip_parens(expr.expression)]
    ELSE expr

\* normalize=True: unquoted identifiers are rendered in lower case
LowerName(name) == IF name = "B" THEN "b" ELSE name

\* Expression.sql(dialect, normalize=True, pretty=False): the tokens of the text
RECURSIVE Sql(_)
Sql(e) ==
    CASE e.t = "Column" -> <<LowerName(e.name)>>
      [] e.t = "Paren" -> <<"(">> \o Sql(e.this) \o <<")">>
      [] e.t = "And" -> Sql(e.this) \o <<"AND">> \o Sql(e.expression)
      [] e.t = "Or" -> Sql(e.this) \o <<"OR">> \o Sql(e.expression)
      [] e.t = "Not" -> <<"NOT">> \o Sql(e.this)
      [] e.t = "Select" -> <<"SELECT">> \o Sql(e.this)
      [] e.t = "Union" -> Sql(e.this) \o <<"UNION">> \o Sql(e.expression)
      [] e.t = "Drop" -> <<"DROP", "TABLE", LowerName(e.name)>>

\* the outcomes of a call
Returned(value) == [kind |-> "returned", value |-> value]
ValueError(message) == [kind |-> "raised", error |-> "ValueError", message |-> message]
RecursionError == [kind |-> "raised", error |-> "RecursionError", message |-> ""]

normalize_parentheses_only(expr) ==
    IF is_full_query(expr)
    THEN ValueError("normalize_parentheses_only expects a non-query expression")
    ELSE Returned(Sql(strip_parens(expr)))

_stable_key(e) == Sql(strip_parens(e))

\* the order of str on rendered keys: "(" < ")" < upper case < lower case
TokenOrder == <<"(", ")", "AND", "DROP", "NOT", "OR", "SELECT", "TABLE", "UNION", "a", "b">>
TokenRank(token) == CHOOSE i \in 1..Len(TokenOrder) : TokenOrder[i] = token

RECURSIVE KeyLess(_, _)
KeyLess(a, b) ==
    IF a = <<>> THEN b # <<>>
    ELSE IF b = <<>> THEN FALSE
    ELSE IF Head(a) = Head(b) THEN KeyLess(Tail(a), Tail(b))
    ELSE TokenRank(Head(a)) < TokenRank(Head(b))

RECURSIVE _flatten_boolean(_, _)
_flatten_boolean(node, kind) ==
    IF IsInstance(node, {kind})
    THEN _flatten_boolean(node.this, kind) \o _flatten_boolean(node.expression, kind)
    ELSE <<node>>

\* exp.and_(*parts) / exp.or_(*parts): operands that are AND/OR groups are wrapped in
\* a Paren (len(parts) == 1 gives parts[0]; parts is never empty here)
WrapConnector(e) == IF e.t \in {"And", "Or"} THEN Paren(e) ELSE e

RECURSIVE _rebuild_boolean(_, _)
_rebuild_boolean(kind, parts) ==
    IF Len(parts) = 1 THEN parts[1]
    ELSE LET left == IF Len(parts) = 2 THEN WrapConnector(parts[1])
                     ELSE _rebuild_boolean(kind, SubSeq(parts, 1, Len(parts) - 1))
             right == WrapConnector(parts[Len(parts)])
         IN  IF kind = "And" THEN And(left, right) ELSE Or(left, right)

\* the depth of Python calls at which the interpreter raises RecursionError
RecursionLimit == 3

\* lines 183-199: the terms of an AND or OR group in the order of their keys
SortedGroup(n) ==
    IF IsInstance(n, {"And"})
    THEN _rebuild_boolean("And", SortSeq(_flatten_boolean(n, "And"),
                                         LAMBDA x, y : KeyLess(_stable_key(x), _stable_key(y))))
    ELSE IF IsInstance(n, {"Or"})
    THEN _rebuild_boolean("Or", SortSeq(_flatten_boolean(n, "Or"),
                                        LAMBDA x, y : KeyLess(_stable_key(x), _stable_key(y))))
    ELSE n

\* visit, lines 179-199: n.transform(visit) applies visit to (the copy of) n itself
\* before it looks at any child, so each call of visit makes another one on an equal
\* tree until the interpreter's limit is reached
RECURSIVE visit(_, _)
visit(n, depth) ==
    IF depth >= RecursionLimit THEN RecursionError
    ELSE LET transformed == visit(n, depth + 1)
         IN  IF transformed = RecursionError THEN RecursionError
             ELSE SortedGroup(transformed)

_canonicalize_boolean_groups(root) == visit(root, 0)

\* Inputs: trees with up to MaxParens Paren wrappers at the root and at each operand
MaxParens == 2

RECURSIVE Wrapped(_, _)
Wrapped(e, n) == IF n = 0 THEN e ELSE Paren(Wrapped(e, n - 1))

SqlCores ==
    {Column("a"), Column("B"), Drop("B"), Union(Select(Column("a")), Select(Column("B")))}
        \cup {Select(Wrapped(Column("a"), j)) : j \in 0..MaxParens}
        \cup {Not(Wrapped(Column("a"), j)) : j \in 0..MaxParens}
        \cup {And(Wrapped(Column("B"), j), Wrapped(y, k)) :
                 j \in 0..MaxParens, k \in 0..MaxParens,
                 y \in {Column("a"), Or(Column("B"), Column("a"))}}
        \cup {Or(Wrapped(Column("B"), j), Wrapped(y, k)) :
                 j \in 0..MaxParens, k \in 0..MaxParens,
                 y \in {Column("a"), Paren(And(Column("B"), Column("a")))}}

SqlInputs == {Wrapped(core, i) : core \in SqlCores, i \in 0..MaxParens}

\* lines 100-107: what the simplify pass may give for a tree; the pass is not part of
\* this repository (any tree of the same kind), and when it is missing or fails the
\* tree is used as it is
Simplified(cleaned) == {cleaned} \cup {e \in SqlInputs : is_full_query(e) = is_full_query(cleaned)}

normalize_expression(expr, allow_queries, simplified) ==
    IF is_full_query(expr) /\ ~allow_queries
    THEN ValueError("normalize_expression expects a non-query expression")
    ELSE LET canon == _canonicalize_boolean_groups(simplified)
         IN  IF canon = RecursionError THEN RecursionError ELSE Returned(Sql(canon))

paren_insensitive_equal(a, b) == strip_parens(a) = strip_parens(b)

\* a call that is about to be made on the tree expr
SqlCall(expr) ==
    [at |-> "ready", fn |-> "", expr |-> expr, given |-> expr, allow_queries |-> FALSE,
     out |-> Returned(<<>>)]

InitSql ==
    /\ sql \in {SqlCall(expr) : expr \in SqlInputs}
    /\ sheetnames = {}
    /\ worksheet = NoGrid
    /\ sheet_name = ""
    /\ config = DefaultConfig
    /\ pc = "none"
    /\ ex = ExIdle
    /\ sub = SubIdle
    /\ scan = ScanIdle
    /\ result = NoResult
    /\ trace = <<>>
    /\ history = <<>>
    /\ calls = <<>>
    /\ other = NoOther

\* strip_parens(expr): the function works on a copy, the caller's tree stays as it is
StripParens ==
    /\ sql.at = "ready"
    /\ sql' = [sql EXCEPT !.at = "done", !.fn = "strip_parens",
                          !.out = Returned(strip_parens(sql.expr))]
    /\ UNCHANGED <<sheetnames, worksheet, sheet_name, config, pc, ex, sub, scan, result,
                   trace, history, calls, other>>

\* strip_parens(strip_parens(expr)): the caller passes the tree it got back
StripParensAgain ==
    /\ sql.at = "done"
    /\ sql.fn = "strip_parens"
    /\ sql.out.value # sql.expr
    /\ sql' = [SqlCall(sql.out.value) EXCEPT !.at = "done", !.fn = "strip_parens",
                                             !.out = Returned(strip_parens(sql.out.value))]
    /\ UNCHANGED <<sheetnames, worksheet, sheet_name, config, pc, ex, sub, scan, result,
                   trace, history, calls, other>>

NormalizeParenthesesOnly ==
    /\ sql.at = "ready"
    /\ sql' = [sql EXCEPT !.at = "done", !.fn = "normalize_parentheses_only",
                          !.out = normalize_parentheses_only(sql.expr)]
    /\ UNCHANGED <<sheetnames, worksheet, sheet_name, config, pc, ex, sub, scan, result,
                   trace, history, calls, other>>

NormalizeExpression ==
    /\ sql.at = "ready"
    /\ \E allow_queries \in BOOLEAN : \E simplified \in Simplified(strip_parens(sql.expr)) :
          sql' = [sql EXCEPT !.at = "done", !.fn = "normalize_expression",
                             !.allow_queries = allow_queries,
                             !.out = normalize_expression(sql.expr, allow_queries, simplified)]
    /\ UNCHANGED <<sheetnames, worksheet, sheet_name, config, pc, ex, sub, scan, result,
                   trace, history, calls, other>>

\* paren_insensitive_equal(expr, b) with b a tree of the same column
ParenInsensitiveEqual ==
    /\ sql.at = "ready"
    /\ \E b \in {Wrapped(Column("a"), i) : i \in 0..MaxParens} :
          sql' = [sql EXCEPT !.at = "done", !.fn = "paren_insensitive_equal",
                             !.out = Returned(<<b, paren_insensitive_equal(sql.expr, b)>>)]
    /\ UNCHANGED <<sheetnames, worksheet, sheet_name, config, pc, ex, sub, scan, result,
                   trace, history, calls, other>>

NextSql ==
    \/ StripParens
    \/ StripParensAgain
    \/ NormalizeParenthesesOnly
    \/ NormalizeExpression
    \/ ParenInsensitiveEqual

SpecSql == InitSql /\ [][NextSql]_vars

-----------------------------------------------------------------------------
(* Extraction from sheets whose section labels lie in merged regions *)

T_Data2 == <<"D", "a", "t", "a", "2">>
T_Info == <<"I", "n", "f", "o">>

\* re.compile(r"Data")
P_Data == Compile(Word(T_Data))
\* re.compile(r"x")
P_x == Compile(Lit("x"))

\* the row of a label: the text in one column of three, the other cells empty
LabelRow(text, col) == [c \in 1..3 |-> IF c = col THEN TextCell(text) ELSE EmptyCell]

\* the label of the first block (row 1): plain, or the top-left cell of a merged region
FirstLabels ==
    {[text |-> T_Data, col |-> 1, merged |-> {}],
     [text |-> T_Data2, col |-> 1, merged |-> {}],
     [text |-> T_Data, col |-> 1, merged |-> {MergedRange(1, 1, 1, 2)}],
     [text |-> T_Data, col |-> 1, merged |-> {MergedRange(1, 2, 1, 2)}],
     [text |-> T_Data, col |-> 1, merged |-> {MergedRange(1, 1, 1, 3)}],
     [text |-> T_Data, col |-> 2, merged |-> {MergedRange(1, 1, 2, 3)}],
     [text |-> T_Info, col |-> 1, merged |-> {MergedRange(1, 1, 1, 2)}]}

\* the label of the second block (row 5)
SecondLabels ==
    {[text |-> T_Data, col |-> 1, merged |-> {}],
     [text |-> T_Data, col |-> 1, merged |-> {MergedRange(5, 5, 1, 2)}],
     [text |-> T_Data, col |-> 2, merged |-> {MergedRange(5, 5, 2, 3)}]}

\* two blocks: label, (blank row,) header row, one data row
LabelledSheets ==
    {Sheet(<<LabelRow(first.text, first.col),
             <<EmptyCell, EmptyCell, EmptyCell>>,
             <<TextCell(T_colA), TextCell(T_colB), EmptyCell>>,
             <<TextCell(<<"1">>), TextCell(<<"x">>), EmptyCell>>,
             LabelRow(second.text, second.col),
             <<TextCell(T_colA), TextCell(T_colB), EmptyCell>>,
             <<TextCell(<<"2">>), TextCell(<<"x">>), EmptyCell>>>>,
           3, first.merged \cup second.merged) :
        first \in FirstLabels, second \in SecondLabels}

\* a sheet whose second label is merged over the rows 3-4 and is, in row 3, also the
\* value of column A of a data row of the first block
OverlapSheet ==
    Sheet(<<<<TextCell(T_Data), EmptyCell, EmptyCell>>,
            <<TextCell(T_colA), TextCell(T_colB), EmptyCell>>,
            <<TextCell(T_Data), TextCell(<<"x">>), EmptyCell>>,
            <<EmptyCell, EmptyCell, EmptyCell>>,
            <<TextCell(T_colA), TextCell(T_colB), EmptyCell>>,
            <<TextCell(<<"2">>), TextCell(<<"x">>), EmptyCell>>>>,
          3, {MergedRange(1, 1, 1, 2), MergedRange(3, 4, 1, 1)})

SectionSheets == LabelledSheets \cup {OverlapSheet}

\* section headers as the tests configure them: plain (simple_test.py), merged
\* (test_comprehensive_validation.py) and merged with expected spans (test_extraction.py)
SectionHeaderConfigs ==
    {SectionHeaderConfig(pattern, start_column, FALSE, 0, 0) :
        pattern \in {P_DataOrTable, P_Data}, start_column \in {"A", "B"}}
    \cup
    {SectionHeaderConfig(P_Data, start_column, TRUE, merged_rows, merged_columns) :
        start_column \in {"A", "B"}, merged_rows \in {0, 1, 2}, merged_columns \in {0, 2}}

SectionConfigs ==
    {[DefaultConfig EXCEPT
        !.columns = <<ColA(AcceptAny), ColB(P_x)>>,
        !.section_header = sh,
        !.row_validation = [minimum_filled_columns |-> 1],
        !.max_consecutive_invalid_rows = 1,
        !.extract_multiple = multi] :
      sh \in SectionHeaderConfigs, multi \in BOOLEAN}

SectionInputs ==
    {[ws |-> ws, config |-> cfg, sheet_name |-> T_Sheet] :
        ws \in SectionSheets, cfg \in SectionConfigs}

InitSection ==
    /\ sheetnames = {T_Sheet}
    /\ \E input \in SectionInputs :
          /\ worksheet = input.ws
          /\ config = input.config
          /\ sheet_name = input.sheet_name
    /\ pc = "start"
    /\ ex = ExIdle
    /\ sub = SubIdle
    /\ scan = ScanIdle
    /\ result = NoResult
    /\ trace = <<>>
    /\ history = <<>>
    /\ calls = <<>>
    /\ other = NoOther
    /\ sql = NoSql

SpecSection == InitSection /\ [][Next]_vars

-----------------------------------------------------------------------------
(* Extraction of numeric cells *)

\* how far from 2^53 the numbers of the sheets lie
NearSpan == 3

\* the doubles among pow * 2^53 + n
IsDouble(pow, n) ==
    IF pow > 0 THEN n <= 0 \/ n % 2 = 0 ELSE n >= 0 \/ (0 - n) % 2 = 0

\* values of numeric cells as the workbook reader delivers them: an int for digits
\* alone, a float for a text with a point or an exponent
Numbers ==
    {IntV(n) : n \in {0, 1, 7}}
    \cup {FloatV(0, n, half) : n \in {-1, 0, 1}, half \in {0, 1}}
    \cup {LongV(pow, n) : pow \in {-1, 1}, n \in (0 - NearSpan)..NearSpan}
    \cup {FloatV(pow, n, 0) : pow \in {1}, n \in {m \in (0 - NearSpan)..NearSpan : IsDouble(1, m)}}
    \cup {FloatV(pow, n, 0) : pow \in {-1}, n \in {m \in (0 - NearSpan)..NearSpan : IsDouble(-1, m)}}

\* numeric cells, formula cells with a numeric, boolean or textual result, a boolean cell
TypedCells ==
    {Cell(val, data_type) : val \in Numbers, data_type \in {"n", "f"}}
    \cup {Cell(BoolV(b), "f") : b \in BOOLEAN}
    \cup {Cell(StrV(<<"x">>), "f"), Cell(BoolV(TRUE), "b")}

\* label, header row and one data row with the cell in column A
TypedSheets ==
    {Sheet(<<<<TextCell(T_Data), EmptyCell>>,
             <<TextCell(T_colA), TextCell(T_colB)>>,
             <<cell, TextCell(<<"x">>)>>>>, 2, {}) : cell \in TypedCells}

TypedConfigs ==
    {[DefaultConfig EXCEPT
        !.columns = <<ColA(AcceptAny), ColB(AcceptAny)>>,
        !.section_header = SectionInA,
        !.row_validation = [minimum_filled_columns |-> 1],
        !.extract_multiple = multi] : multi \in BOOLEAN}

InitTyped ==
    /\ sheetnames = {T_Sheet}
    /\ worksheet \in TypedSheets
    /\ config \in TypedConfigs
    /\ sheet_name = T_Sheet
    /\ pc = "start"
    /\ ex = ExIdle
    /\ sub = SubIdle
    /\ scan = ScanIdle
    /\ result = NoResult
    /\ trace = <<>>
    /\ history = <<>>
    /\ calls = <<>>
    /\ other = NoOther
    /\ sql = NoSql

SpecTyped == InitTyped /\ [][Next]_vars

-----------------------------------------------------------------------------
(* The multi-subtable loop run to its end: extract() is a sequential program, so a
   step that can be taken is taken *)

\* the sheet with the overlapping label region under every section configuration, and
\* the sheets of three blocks, with and without section labels, in multi-subtable mode
LoopInputs ==
    {[ws |-> OverlapSheet, config |-> cfg, sheet_name |-> T_Sheet] : cfg \in SectionConfigs}
        \cup {input \in ThreeBlockInputs :
                 /\ input.config.extract_multiple
                 /\ input.config.max_blank_rows_between_subtables # 2}

InitLoop ==
    /\ sheetnames = {T_Sheet}
    /\ \E input \in LoopInputs :
          /\ worksheet = input.ws
          /\ config = input.config
          /\ sheet_name = input.sheet_name
    /\ pc = "start"
    /\ ex = ExIdle
    /\ sub = SubIdle
    /\ scan = ScanIdle
    /\ result = NoResult
    /\ trace = <<>>
    /\ history = <<>>
    /\ calls = <<>>
    /\ other = NoOther
    /\ sql = NoSql

SpecLoop == InitLoop /\ [][Next]_vars /\ WF_vars(Next)

-----------------------------------------------------------------------------
(* Row scans under both thresholds *)

\* (max_consecutive_invalid_rows, max_consecutive_blank_rows), both set
BothThresholds == {<<1, 1>>, <<2, 2>>, <<2, 3>>, <<2, 1>>}

ThresholdConfigs ==
    {[DefaultConfig EXCEPT
        !.columns = <<ColA(vp), ColB(AcceptAny)>>,
        !.section_header = SectionInA,
        !.row_validation = [minimum_filled_columns |-> m],
        !.max_consecutive_invalid_rows = t[1],
        !.max_consecutive_blank_rows = t[2],
        !.extract_multiple = multi] :
      vp \in {AcceptAny, P_Digits}, m \in {0, 1}, t \in BothThresholds, multi \in BOOLEAN}

InitThresholds ==
    /\ sheetnames = {T_Sheet}
    /\ worksheet \in ScanSheets
    /\ config \in ThresholdConfigs
    /\ sheet_name = T_Sheet
    /\ pc = "start"
    /\ ex = ExIdle
    /\ sub = SubIdle
    /\ scan = ScanIdle
    /\ result = NoResult
    /\ trace = <<>>
    /\ history = <<>>
    /\ calls = <<>>
    /\ other = NoOther
    /\ sql = NoSql

SpecThresholds == InitThresholds /\ [][Next]_vars

-----------------------------------------------------------------------------
(* Notions the properties are stated with, computed from the grid and the  *)
(* configuration rather than from the scanner's own flags                  *)

\* a field value that is not empty
NonEmptyValue(v) == v # None /\ v # StrV(<<>>)

\* the row's field values are those the sheet holds at the row's number, each bound
\* field's value is matched by its value pattern (pattern.match), and enough bound
\* fields are filled
RowSatisfiesRules(row, mapping, cfg) ==
    /\ row.values = ExtractSingleRow(worksheet, row.row_number, mapping).values
    /\ \A i \in 1..Len(mapping) :
          PatternMatch(mapping[i].config.value_pattern, Str(row.values[mapping[i].header_text]))
    /\ Cardinality({i \in 1..Len(mapping) : NonEmptyValue(row.values[mapping[i].header_text])})
          >= cfg.row_validation.minimum_filled_columns

\* every bound column's cell at this grid row is empty
RowAllEmpty(row_num) ==
    \A i \in 1..Len(sub.column_mapping) :
        ~NonEmptyValue(CellAt(worksheet, row_num, sub.column_mapping[i].index).value)

\* the counters before the i-th processed row
InvalidBefore(i) == IF i = 1 THEN 0 ELSE trace[i - 1].consecutive_invalid_rows
BlankBefore(i) == IF i = 1 THEN 0 ELSE trace[i - 1].consecutive_blank_rows

\* the processed rows i..i+n-1 exist and are all invalid
InvalidRun(i, n) ==
    i + n - 1 <= Len(trace) /\ \A k \in i..(i + n - 1) : trace[k].kind = "invalid"

\* the processed rows i..i+n-1 exist, were not cut short by a stop condition and are
\* all empty in the grid
EmptyRun(i, n) ==
    i + n - 1 <= Len(trace)
        /\ \A k \in i..(i + n - 1) : trace[k].kind # "stop" /\ RowAllEmpty(trace[k].row)

RowNumbers(df) == [i \in 1..Len(df) |-> df[i].row_number]

StrictlyIncreasing(numbers) ==
    \A i, j \in 1..Len(numbers) : i < j => numbers[i] < numbers[j]

-----------------------------------------------------------------------------
(* Properties *)

\* C1 (validity invariant): in every state of the row scan, in single- and in
\* multi-subtable mode, every row appended so far holds the sheet's values of its
\* row, each bound field's value is matched by that binding's value pattern, and
\* the number of bound fields with a non-empty value is >= minimum_filled_columns.
C1_ValidityInvariant ==
    /\ \A i \in 1..Len(scan.rows_data) :
          RowSatisfiesRules(scan.rows_data[i], sub.column_mapping, config)
    /\ pc = "returned" => RowNumbers(sub.df) = RowNumbers(scan.rows_data)

C1_Witness ==
    /\ pc = "rows_done"
    /\ Len(scan.rows_data) >= 2
    /\ config.row_validation.minimum_filled_columns = 2
    /\ \E i \in 1..Len(trace) : trace[i].kind = "invalid"

\* C2 (blank-row classification): every processed row whose bound cells are all
\* empty is classified invalid, is not appended to the output and increments the
\* consecutive-blank counter, whatever the configuration.
C2_BlankRowsAlwaysInvalid ==
    \A i \in 1..Len(trace) :
        (trace[i].kind # "stop" /\ RowAllEmpty(trace[i].row)) =>
            /\ trace[i].kind = "invalid"
            /\ \A j \in 1..Len(scan.rows_data) : scan.rows_data[j].row_number # trace[i].row
            /\ trace[i].consecutive_blank_rows = BlankBefore(i) + 1

\* C3 (invalid-row threshold): with max_consecutive_invalid_rows = N > 0, a run of
\* N consecutive invalid rows ends the scan: the N-th row of the run is the last
\* row processed, the scan is no longer running, and no extracted row lies below it.
C3_InvalidThresholdHalts ==
    LET N == config.max_consecutive_invalid_rows
    IN  N > 0 =>
          /\ scan.consecutive_invalid_rows <= N
          /\ \A i \in 1..Len(trace) :
                InvalidRun(i, N) =>
                    /\ i + N - 1 = Len(trace)
                    /\ pc # "rows"
                    /\ \A j \in 1..Len(scan.rows_data) :
                          scan.rows_data[j].row_number < trace[i + N - 1].row

C3_Witness ==
    /\ pc = "rows_done"
    /\ scan.stop = "invalid_threshold"
    /\ config.max_consecutive_invalid_rows = 2
    /\ scan.current_row < scan.max_row

\* C4 (blank-row threshold): with max_consecutive_blank_rows = M > 0, a run of M
\* consecutive blank rows ends the scan at its M-th row, so nothing below the gap is
\* processed; and an invalid row that is not blank resets the consecutive-blank
\* counter to 0 while it increments the consecutive-invalid counter.
C4_BlankThresholdHalts ==
    LET M == config.max_consecutive_blank_rows
    IN  /\ M > 0 =>
             \A i \in 1..Len(trace) :
                 EmptyRun(i, M) => (i + M - 1 = Len(trace) /\ pc # "rows")
        /\ \A i \in 1..Len(trace) :
              (trace[i].kind = "invalid" /\ ~trace[i].blank) =>
                  /\ trace[i].consecutive_blank_rows = 0
                  /\ trace[i].consecutive_invalid_rows = InvalidBefore(i) + 1

\* the header cell holds text that is not empty once trimmed
HasHeaderText(header_row, col_idx) ==
    LET cell == CellAt(worksheet, header_row, col_idx)
    IN  cell.value.k = "str" /\ Strip(cell.value.s) # <<>>

\* the column is bound by an explicit column of the configuration
BoundExplicitly(header_row, col_idx) ==
    \E i \in 1..Len(config.columns) :
        /\ ColIdx(config.columns[i].column_letter) = col_idx
        /\ PatternMatch(config.columns[i].header_pattern,
                        Strip(Str(CellAt(worksheet, header_row, col_idx).value)))

\* the column is bound by a discoverable header pattern
BoundByDiscovery(header_row, col_idx) ==
    \E k \in 1..Len(config.discoverable_headers) :
        PatternMatch(config.discoverable_headers[k],
                     Strip(Str(CellAt(worksheet, header_row, col_idx).value)))

\* the columns of the header row that strict mode must reject
Offending(header_row) ==
    {col_idx \in 1..worksheet.max_column :
        /\ HasHeaderText(header_row, col_idx)
        /\ ~BoundExplicitly(header_row, col_idx)
        /\ ~BoundByDiscovery(header_row, col_idx)}

\* C5 (strict-mode rejection): with strict_columns, a pass goes beyond the column
\* mapper only if its header row has no non-empty cell in an unbound column; if it
\* has one, the call fails with an error that names exactly the offending columns,
\* all of them, with their texts.
C5_StrictModeRejects ==
    config.strict_columns =>
        /\ (sub.header_row # 0 /\ pc \notin {"sub_columns", "error"})
              => Offending(sub.header_row) = {}
        /\ (pc = "error" /\ sheet_name \in sheetnames) =>
              /\ result.kind = "error"
              /\ Offending(sub.header_row) # {}
              /\ {ColIdx(result.unexpected_columns[i].col_letter) :
                    i \in 1..Len(result.unexpected_columns)} = Offending(sub.header_row)
              /\ Len(result.unexpected_columns) = Cardinality(Offending(sub.header_row))
              /\ \A i \in 1..Len(result.unexpected_columns) :
                    result.unexpected_columns[i].text =
                        Strip(Str(CellAt(worksheet, sub.header_row,
                                         ColIdx(result.unexpected_columns[i].col_letter)).value))

C5_Witness ==
    /\ pc = "error"
    /\ sheet_name \in sheetnames
    /\ Cardinality(Offending(sub.header_row)) = 2

\* C6 (no partial result): when the strict-column error is raised no row of that
\* pass has been scanned, and the caller receives the error alone: no rows, and
\* none of the subtables completed earlier in the call.
C6_NoPartialResult ==
    (pc = "error" /\ sheet_name \in sheetnames) =>
        /\ result.kind = "error"
        /\ DOMAIN result \cap {"df", "frames"} = {}
        /\ trace = <<>>
        /\ scan = ScanIdle

C6_Witness ==
    /\ pc = "error"
    /\ sheet_name \in sheetnames
    /\ config.extract_multiple
    /\ Len(ex.all_subtables) >= 1

\* C7 (full-match semantics): a bound field's value is accepted only when the whole
\* string form of the value matches the value pattern, so every extracted row's
\* values are full matches of their patterns.
C7_FullMatchOnly ==
    \A i \in 1..Len(scan.rows_data) :
        \A j \in 1..Len(sub.column_mapping) :
            PatternFullMatch(sub.column_mapping[j].config.value_pattern,
                Str(scan.rows_data[i].values[sub.column_mapping[j].header_text]))

\* C8 (monotonic row numbers): within one subtable the row numbers of the extracted
\* rows are strictly increasing, and the scan visits grid rows in strictly
\* ascending order.
C8_MonotonicRowNumbers ==
    /\ StrictlyIncreasing(RowNumbers(scan.rows_data))
    /\ StrictlyIncreasing(RowNumbers(sub.df))
    /\ StrictlyIncreasing([i \in 1..Len(trace) |-> trace[i].row])
    /\ \A k \in 1..Len(ex.all_subtables) : StrictlyIncreasing(RowNumbers(ex.all_subtables[k]))
    /\ (result.kind = "frame" /\ ~config.extract_multiple)
          => StrictlyIncreasing(RowNumbers(result.df))

C8_Witness ==
    /\ pc = "done"
    /\ result.kind = "frame"
    /\ Len(result.df) >= 2
    /\ result.df[2].row_number > result.df[1].row_number + 1

\* the inputs of scenarios A and B: the sheet of create_test_file and the
\* configuration of simple_test with the given row-level options
IsTestFileRun(m, blank_rows) ==
    /\ \E extent \in {6, 8, 9} : worksheet = TestFileSheet(extent)
    /\ config \in SimpleTestConfigs
    /\ config.row_validation.minimum_filled_columns = m
    /\ config.max_consecutive_blank_rows \in blank_rows

\* C9 (scenario A): on the test sheet with the blank rows 7-8 in its extent,
\* minimum_filled_columns = 1 and max_consecutive_blank_rows = 2, the call returns
\* exactly the rows 4, 5, 6 and the row scan halts at row 8.
C9_ScenarioA ==
    (IsTestFileRun(1, {2}) /\ worksheet.max_row >= 8) =>
        /\ scan.current_row <= 8
        /\ pc = "done" =>
              /\ result.kind = "frame"
              /\ RowNumbers(result.df) = <<4, 5, 6>>
              /\ scan.stop = "blank_threshold"
              /\ trace[Len(trace)].row = 8

C9_Witness ==
    /\ IsTestFileRun(1, {2})
    /\ worksheet.max_row = 9
    /\ pc = "done"

\* C10 as stated (scenario B): with minimum_filled_columns = 3 on the sheet of
\* create_test_file the extracted rows are exactly the rows 4 and 5.
C10_ScenarioB_Original ==
    (IsTestFileRun(3, {0, 1, 2}) /\ pc = "done") =>
        (result.kind = "frame" /\ RowNumbers(result.df) = <<4, 5>>)

\* C10 amended (scenario B): with minimum_filled_columns = 3 on the sheet of
\* create_test_file, rows 5 and 6 are both excluded (row 5 has column B empty) and
\* the extracted rows are exactly row 4.
C10_ScenarioB ==
    (IsTestFileRun(3, {0, 1, 2}) /\ pc = "done") =>
        (result.kind = "frame" /\ RowNumbers(result.df) = <<4>>)

C10_Witness ==
    /\ IsTestFileRun(3, {0, 1, 2})
    /\ pc = "done"
    /\ \E i, j \in 1..Len(trace) :
          /\ trace[i].row = 5 /\ trace[i].kind = "invalid"
          /\ trace[j].row = 6 /\ trace[j].kind = "invalid"

\* the column subtable_index of a frame
SubtableIndexes(df) == [i \in 1..Len(df) |-> df[i].subtable_index]

\* the last element of a non-empty sequence
Last(numbers) == numbers[Len(numbers)]

\* a pass of the loop that has returned with rows, and one that has returned without
CompletedPass(i) == history[i].returned /\ history[i].rows # <<>>
EmptyPass(i) == history[i].returned /\ history[i].rows = <<>>

\* the inputs of scenario D: two section-labelled blocks (rows 3-4 and row 10)
\* separated by the blank rows 5-7, extract_multiple, a gap budget of 50, combined
IsScenarioD ==
    /\ worksheet = TwoBlockSheet
    /\ config \in TwoBlockConfigs

\* C11 (scenario D): with extract_multiple, max_blank_rows_between_subtables = 50
\* and combine_subtables, whatever the other options, the sheet with two
\* section-labelled blocks separated by 3 blank rows yields one frame holding the
\* rows of the first block with subtable_index 0 followed by the rows of the second
\* block with subtable_index 1.
C11_ScenarioD ==
    (IsScenarioD /\ pc = "done") =>
        /\ result.kind = "frame"
        /\ RowNumbers(result.df) = <<3, 4, 10>>
        /\ SubtableIndexes(result.df) = <<0, 0, 1>>

\* C12 (advance after an empty pass): in multi-subtable mode the pass that follows
\* a pass without rows starts from a current_row that has advanced, and searches
\* from there on; without a section-header spec no pass but the first searches
\* from row 1.
C12_AdvanceAfterEmptyPass ==
    config.extract_multiple =>
        /\ \A i \in 1..(Len(history) - 1) :
              EmptyPass(i) =>
                  /\ history[i + 1].current_row > history[i].current_row
                  /\ history[i + 1].start_search_row >= history[i + 1].current_row
        /\ config.section_header = None =>
              \A i \in 2..Len(history) : history[i].start_search_row # 1

\* C13 (sequential subtable discovery): in multi-subtable mode the pass after a
\* completed subtable starts at the row after that subtable's last extracted row;
\* every later pass searches, and every later subtable lies, below that row, so the
\* row numbers over all subtables strictly increase and no row is in two subtables.
C13_SequentialSubtables ==
    config.extract_multiple =>
        /\ \A i \in 1..(Len(history) - 1) :
              CompletedPass(i) => history[i + 1].current_row = Last(history[i].rows) + 1
        /\ \A i, j \in 1..Len(history) :
              (i < j /\ CompletedPass(i)) =>
                  /\ history[j].current_row > Last(history[i].rows)
                  /\ history[j].start_search_row > Last(history[i].rows)
                  /\ \A k \in 1..Len(history[j].rows) :
                        history[j].rows[k] > Last(history[i].rows)
        /\ (history # <<>> /\ ~Last(history).returned) =>
              \A k \in 1..Len(trace) :
                  \A n \in 1..Len(ex.all_subtables) :
                      trace[k].row > Last(RowNumbers(ex.all_subtables[n]))
        /\ StrictlyIncreasing(RowNumbers(Concat(ex.all_subtables)))

C13_Witness ==
    /\ pc = "loop"
    /\ Len(ex.all_subtables) = 2
    /\ \E i, j, k \in 1..Len(history) :
          i < j /\ j < k /\ CompletedPass(i) /\ EmptyPass(j) /\ CompletedPass(k)

\* C14 (subtable indexes): the completed subtables carry the indexes 0, 1, 2, ...
\* in discovery order, a pass without rows consumes no index, every row of a
\* subtable carries the subtable's index, and the combined result holds the rows of
\* the subtables in that order with their indexes.
C14_SubtableIndexes ==
    /\ \A n \in 1..Len(ex.all_subtables) :
          \A i \in 1..Len(ex.all_subtables[n]) :
              ex.all_subtables[n][i].subtable_index = n - 1
    /\ \A i \in 1..Len(history) :
          history[i].subtable_index = Cardinality({j \in 1..(i - 1) : CompletedPass(j)})
    /\ (pc = "done" /\ config.extract_multiple /\ sheet_name \in sheetnames) =>
          IF result.kind = "list"
          THEN ~config.combine_subtables /\ result.frames = ex.all_subtables
          ELSE /\ result.kind = "frame"
               /\ (config.combine_subtables \/ ex.all_subtables = <<>>)
               /\ Len(result.df) = Len(Concat(ex.all_subtables))
               /\ \A i \in 1..Len(result.df) : result.df[i] = Concat(ex.all_subtables)[i]
               /\ \A i, j \in 1..Len(result.df) :
                     i < j => result.df[i].subtable_index <= result.df[j].subtable_index
               /\ {result.df[i].subtable_index : i \in 1..Len(result.df)}
                     = 0..(Len(ex.all_subtables) - 1)

C14_Witness ==
    /\ pc = "done"
    /\ result.kind = "frame"
    /\ SubtableIndexes(result.df) = <<0, 1>>
    /\ \E j \in 1..Len(history) : EmptyPass(j) /\ history[j].subtable_index = 1

\* C15 (maximum subtable count): with max_subtables set, the number of completed
\* subtables never exceeds it, no pass is started once it is reached, and the call
\* is then at the loop head or past the loop.
C15_MaxSubtables ==
    (config.extract_multiple /\ config.max_subtables # 0) =>
        /\ Len(ex.all_subtables) <= config.max_subtables
        /\ \A i \in 1..Len(history) :
              Cardinality({j \in 1..(i - 1) : CompletedPass(j)}) < config.max_subtables
        /\ Len(ex.all_subtables) = config.max_subtables => pc \in {"loop", "finish", "done"}

\* the call ended on the subtable limit although a further section header lies below
C15_Witness ==
    /\ pc = "done"
    /\ config.extract_multiple
    /\ config.max_subtables = 1
    /\ Len(ex.all_subtables) = 1
    /\ ex.current_row <= worksheet.max_row
    /\ config.section_header # None
    /\ FindSectionHeaderFromRow(worksheet, config.section_header, ex.current_row) # None

\* the number of passes without rows among the passes before the i-th, counted
\* from the last completed subtable
EmptyPassesBefore(i) ==
    Cardinality({j \in 1..(i - 1) :
        EmptyPass(j) /\ \A k \in j..(i - 1) : ~CompletedPass(k)})

ValidInGrid(r) ==
    IsValidRow(ExtractSingleRow(worksheet, r, sub.column_mapping), sub.column_mapping, config)

\* C17 (zero means unbounded): with max_consecutive_invalid_rows = 0 and
\* max_consecutive_blank_rows = 0, a scan that no stop condition ends processes
\* every row from the row after the header row to the end of the search extent, in
\* order, and extracts exactly the rows of that range that the validator accepts.
C17_ZeroMeansUnbounded ==
    (/\ config.max_consecutive_invalid_rows = 0
     /\ config.max_consecutive_blank_rows = 0
     /\ pc = "rows_done"
     /\ scan.stop # "end_condition") =>
        /\ scan.stop = "exhausted"
        /\ Len(trace) = sub.end_search_row - sub.header_row
        /\ \A i \in 1..Len(trace) : trace[i].row = sub.header_row + i
        /\ \A r \in (sub.header_row + 1)..sub.end_search_row :
              ValidInGrid(r) <=> (\E j \in 1..Len(scan.rows_data) : scan.rows_data[j].row_number = r)

\* a valid row is extracted after a run of two invalid rows
C17_Witness ==
    /\ pc = "rows_done"
    /\ config.max_consecutive_invalid_rows = 0
    /\ config.max_consecutive_blank_rows = 0
    /\ scan.stop = "exhausted"
    /\ \E i \in 1..(Len(trace) - 2) :
          /\ trace[i].kind = "invalid" /\ trace[i].blank
          /\ trace[i + 1].kind = "invalid"
          /\ trace[i + 2].kind = "valid"

\* no cell of the section-header column, from the given row down, is matched by the
\* pattern of the (non-merged) section-header spec
SectionLabelAbsent(from) ==
    /\ config.section_header # None
    /\ ~config.section_header.is_merged
    /\ \A r \in from..worksheet.max_row :
          LET cell == CellAt(worksheet, r, ColIdx(config.section_header.start_column))
          IN  ~(Truthy(cell.value) /\ PatternMatch(config.section_header.pattern, Str(cell.value)))

\* no row of the search window that starts at the given row holds a cell matched by
\* the header pattern of its column
HeaderRowAbsent(from) ==
    \A r \in from..(from + 9) :
        r <= worksheet.max_row =>
            \A i \in 1..Len(config.columns) :
                LET cell == CellAt(worksheet, r, ColIdx(config.columns[i].column_letter))
                IN  ~(/\ Truthy(cell.value)
                      /\ PatternMatch(config.columns[i].header_pattern, Strip(Str(cell.value))))

\* the empty result
EmptyResult == [kind |-> "frame", df |-> EmptyFrame]

C19_SheetNotFound ==
    sheet_name \notin sheetnames =>
        /\ pc \in {"start", "error"}
        /\ ex = ExIdle /\ sub = SubIdle /\ scan = ScanIdle
        /\ trace = <<>> /\ history = <<>>
        /\ pc = "start" => result = NoResult
        /\ pc = "error" =>
              result = [kind |-> "error", type |-> "ValueError", what |-> "sheet_not_found",
                        sheet_name |-> sheet_name]

C19_Witness ==
    /\ pc = "error"
    /\ sheet_name \notin sheetnames
    /\ config.extract_multiple
    /\ result.kind = "error"

\* the finished call was made with the arguments of the current call
SameArguments(call) == call.sheet_name = sheet_name /\ call.config = config

\* C20 (determinism and statelessness): on one extractor and one grid, any two
\* calls with the same sheet name and configuration give the same outcome (result
\* or error), whatever calls were made before or between them.
C20_Deterministic ==
    /\ \A i, j \in 1..Len(calls) :
          (calls[i].sheet_name = calls[j].sheet_name /\ calls[i].config = calls[j].config)
              => calls[i].result = calls[j].result
    /\ pc \in {"done", "error"} =>
          \A i \in 1..Len(calls) : SameArguments(calls[i]) => calls[i].result = result

\* a multi-subtable call returns two subtables for the second time, a call with
\* other arguments having been made in between
C20_Witness ==
    /\ pc = "done"
    /\ Len(calls) = 2
    /\ SameArguments(calls[1])
    /\ ~SameArguments(calls[2])
    /\ config.extract_multiple
    /\ result.kind = "frame"
    /\ Len(result.df) = 2

\* the row scan of the current pass is under way or has just ended: trace, scan and
\* sub.column_mapping belong to the same pass
InRowScan == pc \in {"rows", "rows_done"}

\* the greatest member of a set of indexes, 0 for the empty set
Greatest(indexes) == IF indexes = {} THEN 0 ELSE CHOOSE i \in indexes : \A j \in indexes : j <= i

\* C25: after each processed row the invalid counter is the number of rows processed
\* since the most recent valid row (or the scan start) and the blank counter is the
\* length of the trailing run of invalid blank rows; every valid row is extracted,
\* whatever invalid rows precede it.
C25_RunLengthCounters ==
    InRowScan =>
        /\ \A i \in 1..Len(trace) :
              trace[i].kind # "stop" =>
                  /\ trace[i].consecutive_invalid_rows
                        = i - Greatest({k \in 1..i : trace[k].kind = "valid"})
                  /\ trace[i].consecutive_blank_rows
                        = i - Greatest({k \in 1..i : ~(trace[k].kind = "invalid" /\ trace[k].blank)})
                  /\ trace[i].row = scan.start_row + i - 1
                  /\ (trace[i].kind = "valid"
                        => \E k \in 1..Len(scan.rows_data) : scan.rows_data[k].row_number = trace[i].row)
        /\ (trace # <<>> /\ Last(trace).kind # "stop") =>
              /\ scan.consecutive_invalid_rows = Last(trace).consecutive_invalid_rows
              /\ scan.consecutive_blank_rows = Last(trace).consecutive_blank_rows

\* a data row that follows one blank row, under a blank threshold of 2, is extracted
C25_Witness ==
    /\ InRowScan
    /\ config.max_consecutive_blank_rows = 2
    /\ \E i \in 2..Len(trace) :
          /\ trace[i - 1].kind = "invalid" /\ trace[i - 1].blank
          /\ trace[i].kind = "valid"
          /\ \E k \in 1..Len(scan.rows_data) : scan.rows_data[k].row_number = trace[i].row

\* a bound column's cell at the row lies in a merged region of the grid
MergedAt(r) ==
    \E i \in 1..Len(sub.column_mapping) : \E mr \in worksheet.merged_cells :
        /\ mr.min_row <= r /\ r <= mr.max_row
        /\ mr.min_col <= sub.column_mapping[i].index /\ sub.column_mapping[i].index <= mr.max_col

\* end pattern and end-pattern column are both set and the pattern matches the cell
EndPatternAt(r) ==
    /\ config.end_pattern # None
    /\ config.end_pattern_column # ""
    /\ LET cell == CellAt(worksheet, r, ColIdx(config.end_pattern_column))
       IN  Truthy(cell.value) /\ PatternMatch(config.end_pattern, Str(cell.value))

\* C26: a row is a stopping row exactly when stop_on_merged_cell is set and a bound
\* column's cell lies in a merged region, or the end pattern matches; the stopping row
\* ends the scan of the subtable successfully, is not extracted even if valid, leaves
\* both counters as they were, and no later row is processed.
C26_StopConditionsFirst ==
    /\ InRowScan =>
          \A i \in 1..Len(trace) :
              LET r == trace[i].row
                  stops == (config.stop_on_merged_cell /\ MergedAt(r)) \/ EndPatternAt(r)
              IN  /\ (trace[i].kind = "stop") <=> stops
                  /\ stops =>
                        /\ i = Len(trace)
                        /\ pc = "rows_done"
                        /\ scan.stop = "end_condition"
                        /\ trace[i].consecutive_invalid_rows = InvalidBefore(i)
                        /\ trace[i].consecutive_blank_rows = BlankBefore(i)
                        /\ scan.consecutive_invalid_rows = InvalidBefore(i)
                        /\ scan.consecutive_blank_rows = BlankBefore(i)
                        /\ \A k \in 1..Len(scan.rows_data) : scan.rows_data[k].row_number < r
                        /\ RowNumbers(scan.rows_data)
                              = SelectSeq([k \in 1..(i - 1) |-> trace[k].row],
                                          LAMBDA n : \E k \in 1..(i - 1) :
                                                        trace[k].row = n /\ trace[k].kind = "valid")
    /\ (pc = "returned" /\ sub.column_mapping # <<>> /\ scan.stop = "end_condition")
          => RowNumbers(sub.df) = RowNumbers(scan.rows_data)

\* the scan stopped on a row that the validator accepts, with rows accumulated before it
C26_Witness ==
    /\ pc = "rows_done"
    /\ trace # <<>> /\ Last(trace).kind = "stop"
    /\ scan.rows_data # <<>>
    /\ IsValidRow(ExtractSingleRow(worksheet, Last(trace).row, sub.column_mapping),
                  sub.column_mapping, config)

\* C27: the end pattern stops a row whether or not end_pattern_column is a bound
\* column; when end_pattern or end_pattern_column is unset it stops no row; and a row
\* whose merged cells all lie in unbound columns is not stopped by stop_on_merged_cell.
C27_EndPatternScope ==
    InRowScan =>
        \A i \in 1..Len(trace) :
            LET r == trace[i].row
            IN  /\ EndPatternAt(r) => trace[i].kind = "stop"
                /\ (trace[i].kind = "stop"
                      /\ (config.end_pattern = None \/ config.end_pattern_column = ""))
                      => (config.stop_on_merged_cell /\ MergedAt(r))
                /\ (trace[i].kind = "stop" /\ ~MergedAt(r))
                      => /\ config.end_pattern # None /\ config.end_pattern_column # ""
                         /\ PatternMatch(config.end_pattern,
                               Str(CellAt(worksheet, r, ColIdx(config.end_pattern_column)).value))

\* the end pattern stopped the scan from a column that is not bound
C27_Witness ==
    /\ pc = "rows_done"
    /\ trace # <<>> /\ Last(trace).kind = "stop"
    /\ ~config.stop_on_merged_cell
    /\ ~HasKey(sub.column_mapping, config.end_pattern_column)
    /\ \E mr \in worksheet.merged_cells : mr.min_col = ColIdx(config.end_pattern_column)

\* the place of a column letter in the configured columns
PositionInConfig(column_letter) ==
    Greatest({i \in 1..Len(config.columns) :
                 /\ config.columns[i].column_letter = column_letter
                 /\ \A j \in 1..(i - 1) : config.columns[j].column_letter # column_letter})

\* C28: the bindings are the explicit columns in configured order followed by the
\* discovered columns from left to right; every extracted row has the first binding's
\* column as row_start and the last binding's column as row_end, and every field has
\* the column of the binding it was read from as origin (the last binding of that
\* header text), all with the row's number.
C28_BindingOrder ==
    InRowScan =>
        LET m == sub.column_mapping
        IN  /\ \A i, j \in 1..Len(m) :
                  i < j =>
                      /\ m[i].is_discovered => m[j].is_discovered
                      /\ (~m[i].is_discovered /\ ~m[j].is_discovered)
                            => PositionInConfig(m[i].key) < PositionInConfig(m[j].key)
                      /\ (m[i].is_discovered /\ m[j].is_discovered) => m[i].index < m[j].index
            /\ \A i \in 1..Len(m) : ~m[i].is_discovered => PositionInConfig(m[i].key) # 0
            /\ \A k \in 1..Len(scan.rows_data) :
                  LET row == scan.rows_data[k]
                  IN  /\ row.row_start = <<m[1].key, row.row_number>>
                      /\ row.row_end = <<m[Len(m)].key, row.row_number>>
                      /\ \A i \in 1..Len(m) :
                            (\A j \in (i + 1)..Len(m) : m[j].header_text # m[i].header_text)
                                => row.coords[m[i].header_text] = <<m[i].key, row.row_number>>

\* a row extracted under bindings whose configured order is not the sheet order,
\* followed by two discovered columns
C28_Witness ==
    /\ InRowScan
    /\ scan.rows_data # <<>>
    /\ Len(sub.column_mapping) = 4
    /\ sub.column_mapping[1].index > sub.column_mapping[2].index
    /\ sub.column_mapping[3].is_discovered
    /\ sub.column_mapping[4].is_discovered

\* the explicit column configured for the position matches the header cell
ExplicitMatch(header_row, col_idx) ==
    /\ Truthy(CellAt(worksheet, header_row, col_idx).value)
    /\ BoundExplicitly(header_row, col_idx)

\* the discoverable patterns that match the trimmed header text of the column
DiscoverableMatches(header_row, col_idx) ==
    {k \in 1..Len(config.discoverable_headers) :
        /\ Truthy(CellAt(worksheet, header_row, col_idx).value)
        /\ PatternMatch(config.discoverable_headers[k],
                        Strip(Str(CellAt(worksheet, header_row, col_idx).value)))}

QualifyingRows(s) ==
    {r \in s..(s + 9) :
        /\ r <= worksheet.max_row
        /\ \E i \in 1..Len(config.columns) :
              LET cell == CellAt(worksheet, r, ColIdx(config.columns[i].column_letter))
              IN  /\ Truthy(cell.value)
                  /\ PatternMatch(config.columns[i].header_pattern, Strip(Str(cell.value)))}

\* the header-row locator has been called and has answered
HeaderRowFound == pc \in {"sub_columns", "rows", "rows_done"}
HeaderRowNotFound == pc = "returned" /\ sub.search_start_row # 0 /\ sub.header_row = 0

\* C30: from the start row s the locator answers the smallest qualifying row of
\* s..min(s + 9, last row), and "not found" when that window has none, whatever lies
\* from row s + 10 on.
C30_HeaderRowLocator ==
    /\ HeaderRowFound =>
          /\ sub.header_row \in QualifyingRows(sub.search_start_row)
          /\ \A r \in QualifyingRows(sub.search_start_row) : sub.header_row <= r
    /\ HeaderRowNotFound => QualifyingRows(sub.search_start_row) = {}
    /\ (pc = "returned" /\ sub.search_start_row # 0 /\ QualifyingRows(sub.search_start_row) = {})
          => sub.header_row = 0

\* the header row is found in the last row of the window
C30_Witness ==
    /\ HeaderRowFound
    /\ sub.header_row = sub.search_start_row + 9

\* the header row lies just past the window and is not found
C30_WitnessNotFound ==
    /\ HeaderRowNotFound
    /\ QualifyingRows(sub.search_start_row + 1) # {}

\* C21: every step of an extraction call leaves the grid (cell values, merged regions,
\* row and column extent) and the configuration as they were.
C21_ReadOnly == [][worksheet' = worksheet /\ config' = config]_vars

\* C22: a call whose steps were interleaved with those of another call, on the same
\* sheet or on another one, returns what the same call returns when it runs alone; the
\* sheets are only read while the two calls run.
C22_ConcurrentCalls ==
    /\ (other.phase = "alone" /\ pc \in {"done", "error"}) => result = calls[1].result
    /\ other.phase = "together" =>
          /\ worksheet \in PairSheets
          /\ ~other.shared => other.worksheet \in PairSheets

\* two calls on the same sheet, both under way when the scheduler switched between
\* them; the one that returned two rows returns the same two rows alone
C22_Witness ==
    /\ other.phase = "alone"
    /\ other.shared
    /\ other.interleaved
    /\ pc = "done"
    /\ result.kind = "frame"
    /\ Len(result.df) = 2
    /\ result = calls[1].result

\* the tree holds a Paren node somewhere
RECURSIVE HasParen(_)
HasParen(e) ==
    \/ e.t = "Paren"
    \/ (e.t \in Unary /\ HasParen(e.this))
    \/ (e.t \in Binary /\ (HasParen(e.this) \/ HasParen(e.expression)))

\* the tree with every Paren node taken out and nothing else changed
RECURSIVE WithoutParens(_)
WithoutParens(e) ==
    IF e.t = "Paren" THEN WithoutParens(e.this)
    ELSE IF e.t \in Unary THEN [e EXCEPT !.this = WithoutParens(e.this)]
    ELSE IF e.t \in Binary
    THEN [e EXCEPT !.this = WithoutParens(e.this), !.expression = WithoutParens(e.expression)]
    ELSE e

\* C23: strip_parens returns the input tree without any Paren node and otherwise
\* unchanged, leaves the tree it was given as it was, and gives the same tree when
\* it is applied to its own result.
C23_StripParens ==
    (sql.at = "done" /\ sql.fn = "strip_parens") =>
        /\ ~HasParen(sql.out.value)
        /\ sql.out.value = WithoutParens(sql.given)
        /\ sql.expr = sql.given
        /\ strip_parens(sql.out.value) = sql.out.value

\* the root of the tree, below any number of Paren wrappers, is a statement or query
QueryBelowParens(e) ==
    \E n \in 0..(MaxParens + 1) : \E core \in SqlCores :
        e = Wrapped(core, n) /\ core.t \in {"Select", "Union", "Drop"}

\* C24: normalize_parentheses_only raises its ValueError exactly for the trees whose
\* root below any number of Paren wrappers is a statement or query, without having
\* stripped or rendered; normalize_expression does the same unless allow_queries is
\* true; for every other tree neither raises the guard error.
C24_QueryGuard ==
    /\ (sql.at = "done" /\ sql.fn = "normalize_parentheses_only") =>
          /\ QueryBelowParens(sql.given)
                <=> sql.out = ValueError("normalize_parentheses_only expects a non-query expression")
          /\ ~QueryBelowParens(sql.given) => sql.out.kind = "returned"
    /\ (sql.at = "done" /\ sql.fn = "normalize_expression") =>
          /\ (QueryBelowParens(sql.given) /\ ~sql.allow_queries)
                <=> sql.out = ValueError("normalize_expression expects a non-query expression")
          /\ (~QueryBelowParens(sql.given) \/ sql.allow_queries)
                => ~(sql.out.kind = "raised" /\ sql.out.error = "ValueError")
    /\ sql.at = "done" => sql.expr = sql.given

\* a query under two Paren wrappers is refused by normalize_parentheses_only
C24_Witness ==
    /\ sql.at = "done"
    /\ sql.fn = "normalize_parentheses_only"
    /\ sql.given = Paren(Paren(Select(Column("a"))))
    /\ sql.out.kind = "raised"

-----------------------------------------------------------------------------
(* Section header locator *)

\* the column the section search looks at
SectionColumn == ColIdx(config.section_header.start_column)

\* the least row of a non-empty set of rows
FirstRow(rows) == CHOOSE r \in rows : \A q \in rows : r <= q

\* the row a section search of the call started from, and what the call kept of its
\* answer: in single mode the search of _extract_single_subtable from row 1, in multi
\* mode the search of the loop from current_row
SectionSearched ==
    \/ ~config.extract_multiple /\ pc = "sub_header"
    \/ config.extract_multiple /\ pc = "sub_section"
SectionSearchFrom ==
    IF config.extract_multiple THEN history[Len(history)].current_row ELSE 1
SectionLabelKept == IF config.extract_multiple THEN ex.section_text ELSE sub.section_text
SectionEndKept == IF config.extract_multiple THEN ex.section_end_row ELSE sub.search_start_row - 1
\* the single-mode search returned None
SectionNotFound == ~config.extract_multiple /\ pc = "returned" /\ sub.search_start_row = 0

\* rows from the given one on whose cell in the start column holds a text that the
\* pattern matches as a whole
FullMatchRows(from) ==
    {r \in from..worksheet.max_row :
        LET cell == CellAt(worksheet, r, SectionColumn)
        IN  cell.value # None /\ PatternFullMatch(config.section_header.pattern, Str(cell.value))}

\* C31 (as stated): in non-merged mode the locator returns the lowest row at or below
\* the start row whose cell text in the start column matches the pattern as a whole,
\* with that text as label and that row as range, and 'not found' when there is none
C31_SectionHeaderFullMatch ==
    (config.section_header # None /\ ~config.section_header.is_merged) =>
        /\ SectionSearched =>
              /\ FullMatchRows(SectionSearchFrom) # {}
              /\ LET row == FirstRow(FullMatchRows(SectionSearchFrom))
                 IN  /\ SectionEndKept = row
                     /\ SectionLabelKept = StrV(Str(CellAt(worksheet, row, SectionColumn).value))
        /\ SectionNotFound => FullMatchRows(1) = {}

\* merged regions that cover the scanned cell of the row and conform to the
\* configuration: start column, expected spans when configured, text of the top-left cell
ConformingRegions(r) ==
    {mr \in worksheet.merged_cells :
        /\ InRange(r, SectionColumn, mr)
        /\ mr.min_col = SectionColumn
        /\ config.section_header.merged_rows # 0 =>
              mr.max_row - mr.min_row + 1 = config.section_header.merged_rows
        /\ config.section_header.merged_columns # 0 =>
              mr.max_col - mr.min_col + 1 = config.section_header.merged_columns
        /\ LET top_left == CellAt(worksheet, mr.min_row, mr.min_col)
           IN  /\ Truthy(top_left.value)
               /\ PatternMatch(config.section_header.pattern, Str(top_left.value))}

\* merged regions that cover the scanned cell of the row
CoveringRegions(r) == {mr \in worksheet.merged_cells : InRange(r, SectionColumn, mr)}

ConformingRows(from) == {r \in from..worksheet.max_row : ConformingRegions(r) # {}}

\* C32: in merged mode the locator answers with the first scanned row that a
\* conforming merged region covers: the label is the text of the region's top-left
\* cell and the range runs from the region's first to its last row; regions with
\* another start column or another span are passed over, without an error and
\* without ending the scan, and 'not found' means that no row has a conforming region
C32_SectionHeaderMerged ==
    (config.section_header # None /\ config.section_header.is_merged) =>
        /\ \A from \in 1..worksheet.max_row :
              LET found == FindSectionHeaderFromRow(worksheet, config.section_header, from)
              IN  IF ConformingRows(from) = {} THEN found = None
                  ELSE \E mr \in ConformingRegions(FirstRow(ConformingRows(from))) :
                          found = [section_text |-> Str(CellAt(worksheet, mr.min_row, mr.min_col).value),
                                   start_row |-> mr.min_row, end_row |-> mr.max_row]
        /\ SectionSearched =>
              /\ ConformingRows(SectionSearchFrom) # {}
              /\ \E mr \in ConformingRegions(FirstRow(ConformingRows(SectionSearchFrom))) :
                    /\ SectionEndKept = mr.max_row
                    /\ SectionLabelKept = StrV(Str(CellAt(worksheet, mr.min_row, mr.min_col).value))
        /\ SectionNotFound => ConformingRows(1) = {}
        /\ result.kind # "error"

\* a search passed over a region of row 1 that covers the scanned cell but does not
\* conform, and answered with the conforming region of row 5
C32_Witness ==
    /\ config.section_header # None
    /\ config.section_header.is_merged
    /\ SectionSearched
    /\ SectionSearchFrom = 1
    /\ CoveringRegions(1) # {}
    /\ ConformingRegions(1) = {}
    /\ SectionEndKept = 5
    /\ SectionLabelKept = StrV(T_Data)

-----------------------------------------------------------------------------
(* Numeric cell typing *)

\* the cell of column A of the data row, and the field extracted from it
NumericCell == CellAt(worksheet, 3, 1)
TypedScalars == {scan.rows_data[i].values[T_colA] : i \in 1..Len(scan.rows_data)}

\* the cell is declared numeric, or is a formula result of a numeric runtime kind
HoldsNumber(cell) ==
    /\ cell.data_type \in {"n", "f"}
    /\ cell.value.k \in {"int", "long", "float"}

\* the number is whole and lies in -2^53 .. 2^53, both ends included
WholeInSafeRange(val) ==
    /\ val.k = "float" => val.half = 0
    /\ val.k \in {"long", "float"} =>
          \/ val.pow = 0
          \/ val.pow = 1 /\ val.n <= 0
          \/ val.pow = -1 /\ val.n >= 0

\* two numbers of the same numeric value
SameNumber(a, b) ==
    LET pow(v) == IF v.k = "int" THEN 0 ELSE v.pow
        half(v) == IF v.k = "float" THEN v.half ELSE 0
    IN  pow(a) = pow(b) /\ a.n = b.n /\ half(a) = half(b)

\* C33 (as stated): the typed scalar of a numeric cell or numeric formula result is
\* an integer exactly when the value is whole and within -2^53 .. 2^53; otherwise it
\* is a real number of the same numeric value
C33_NumericTyping ==
    (pc = "rows" /\ HoldsNumber(NumericCell)) =>
        \A typed \in TypedScalars :
            /\ typed.k \in {"int", "long"} <=> WholeInSafeRange(NumericCell.value)
            /\ ~WholeInSafeRange(NumericCell.value) =>
                  typed.k = "float" /\ SameNumber(typed, NumericCell.value)

-----------------------------------------------------------------------------
(* The extent of a row scan in multi-subtable mode *)

\* a row below the first row of the scan that holds the section label or the header
\* row of a following block
SectionLabelRow(r) ==
    /\ r > scan.start_row
    /\ config.section_header # None
    /\ SectionHeaderAt(worksheet, config.section_header, r)
HeaderRowBelow(r) == r > scan.start_row /\ HeaderMatches(worksheet, r, config.columns)

-----------------------------------------------------------------------------
(* Termination of the call *)

\* the call has returned a result or raised an error
Terminated == pc \in {"done", "error"}

\* current_row at the head of each iteration of the loop so far is greater than at
\* the head of the one before, and the iterations are no more than the sheet's rows
LoopAdvances ==
    /\ \A i \in 1..(Len(history) - 1) : history[i].current_row < history[i + 1].current_row
    /\ (pc = "loop" /\ history # <<>>) => history[Len(history)].current_row < ex.current_row
    /\ \A i \in 1..Len(history) : history[i].current_row >= 1
    /\ Len(history) <= worksheet.max_row

\* C35: every call terminates; in multi-subtable mode current_row strictly increases
\* from one iteration of the loop to the next, after a completed subtable and after
\* an empty pass, so the loop runs at most as many iterations as the sheet has rows
C35_Termination == []LoopAdvances /\ <>Terminated

\* a call has terminated after a section search that started inside a merged label
\* region (the region begins above current_row), after an empty pass and after a
\* completed one
C35_Witness ==
    /\ Terminated
    /\ config.extract_multiple
    /\ config.section_header # None
    /\ \E i \in 1..Len(history) :
          LET found == FindSectionHeaderFromRow(worksheet, config.section_header,
                                                history[i].current_row)
          IN  found # None /\ found.start_row < history[i].current_row
    /\ \E i \in 1..Len(history) : CompletedPass(i)

\* a call without a section header has terminated after an empty pass
C35_WitnessEmptyPass ==
    /\ Terminated
    /\ config.extract_multiple
    /\ \E i \in 1..Len(history) : EmptyPass(i)
    /\ Len(history) >= 2

-----------------------------------------------------------------------------
(* Zero and false in bound cells *)

\* the bindings carry pairwise different header texts
DistinctHeaderTexts ==
    \A i \in 1..Len(sub.column_mapping) : \A j \in 1..Len(sub.column_mapping) :
        sub.column_mapping[i].header_text = sub.column_mapping[j].header_text => i = j

\* the field of binding i in grid row r: the typed value of the cell, '' for no value
FieldAt(r, i) ==
    LET value == ExtractCellValueWithType(CellAt(worksheet, r, sub.column_mapping[i].index))
    IN  IF value = None THEN StrV(<<>>) ELSE value

\* the field counts as empty: the empty text, the number 0 or the boolean false
CountsAsEmpty(v) == v \in {StrV(<<>>), IntV(0), FloatV(0, 0, 0), BoolV(FALSE)}

\* the string form of the field, as the value pattern sees it
StringForm(v) ==
    IF v = IntV(0) THEN <<"0">>
    ELSE IF v = BoolV(FALSE) THEN <<"F", "a", "l", "s", "e">>
    ELSE Str(v)

C36_WitnessFalse ==
    /\ InRowScan
    /\ DistinctHeaderTexts
    /\ \E k \in 1..Len(trace) :
          /\ ~trace[k].blank
          /\ trace[k].kind = "invalid"
          /\ \E i \in 1..Len(sub.column_mapping) :
                /\ FieldAt(trace[k].row, i) = BoolV(FALSE)
                /\ sub.column_mapping[i].config.value_pattern = AcceptAny
          /\ config.row_validation.minimum_filled_columns = 2

-----------------------------------------------------------------------------
(* Fields keyed by header text *)

\* the bindings that carry the header text, and the one bound last
BindingsOf(h) == {i \in 1..Len(sub.column_mapping) : sub.column_mapping[i].header_text = h}
LaterBound(h) == CHOOSE i \in BindingsOf(h) : \A j \in BindingsOf(h) : j <= i

\* C37: an extracted row holds one field and one origin coordinate per header text;
\* bindings that share a header text share the field, which carries the value and the
\* coordinate of the binding bound last; the validator tests that value against the
\* value pattern of each binding and counts it once for each binding; with pairwise
\* different header texts every binding has a field of its own
C37_KeyedByHeaderText ==
    InRowScan =>
        LET mapping == sub.column_mapping
            texts == {mapping[i].header_text : i \in 1..Len(mapping)}
        IN  /\ \A k \in 1..Len(scan.rows_data) :
                  LET row == scan.rows_data[k]
                  IN  /\ DOMAIN row.values = texts
                      /\ DOMAIN row.coords = texts
                      /\ \A h \in texts :
                            /\ row.values[h] = FieldAt(row.row_number, LaterBound(h))
                            /\ row.coords[h] = Coord(mapping[LaterBound(h)].key, row.row_number)
                      /\ DistinctHeaderTexts =>
                            /\ Cardinality(DOMAIN row.values) = Len(mapping)
                            /\ \A i \in 1..Len(mapping) :
                                  row.values[mapping[i].header_text] = FieldAt(row.row_number, i)
            /\ \A k \in 1..Len(trace) :
                  LET r == trace[k].row
                      shared(i) == FieldAt(r, LaterBound(mapping[i].header_text))
                  IN  trace[k].kind # "stop" =>
                          (trace[k].kind = "valid" <=>
                              /\ \A i \in 1..Len(mapping) :
                                    PatternMatch(mapping[i].config.value_pattern, Str(shared(i)))
                              /\ Cardinality({i \in 1..Len(mapping) : Truthy(shared(i))})
                                    >= config.row_validation.minimum_filled_columns)

\* two bindings share the header text: the extracted row has the single field of the
\* column bound last, whose value '8' passed the pattern \d+ of the other binding and
\* was counted twice for the minimum of 2, while the value 7 of the first column is lost
C37_Witness ==
    /\ InRowScan
    /\ Len(sub.column_mapping) = 2
    /\ ~DistinctHeaderTexts
    /\ config.row_validation.minimum_filled_columns = 2
    /\ sub.column_mapping[1].config.value_pattern = P_Digits
    /\ \E k \in 1..Len(scan.rows_data) :
          LET row == scan.rows_data[k]
          IN  /\ Cardinality(DOMAIN row.values) = 1
              /\ row.values[T_colA] = StrV(<<"8">>)
              /\ row.coords[T_colA] = Coord("B", row.row_number)
              /\ FieldAt(row.row_number, 1) = IntV(7)

-----------------------------------------------------------------------------
(* Header row locator and column mapper together *)

\* the configured columns whose header pattern matches the trimmed text of their cell
\* in the row
ExplicitColumns(row) ==
    {i \in 1..Len(config.columns) :
        LET cell == CellAt(worksheet, row, ColIdx(config.columns[i].column_letter))
        IN  /\ Truthy(cell.value)
            /\ PatternMatch(config.columns[i].header_pattern, Strip(Str(cell.value)))}

\* the columns of the row that a discoverable pattern matches
DiscoverableColumns(row) ==
    {c \in 1..worksheet.max_column : DiscoverableMatches(row, c) # {}}

\* the pass ended because the mapper resolved no binding in a located header row
ZeroBindingsResolved == pc = "returned" /\ sub.header_row # 0 /\ sub.column_mapping = <<>>

\* C38: a row returned by the header-row locator has a configured column whose header
\* pattern matches, and the column mapper binds it: the mapping of a located row holds
\* at least one explicit binding, a pass never ends with zero bindings resolved, and
\* a row matched by discoverable patterns alone is never the located header row
C38_LocatedRowIsBound ==
    /\ sub.header_row # 0 =>
          /\ ExplicitColumns(sub.header_row) # {}
          /\ LET mapping == ColumnMapping(worksheet, sub.header_row, config.columns, config)
             IN  \E i \in 1..Len(mapping) :
                    /\ ~mapping[i].is_discovered
                    /\ \E k \in ExplicitColumns(sub.header_row) :
                          mapping[i].key = config.columns[k].column_letter
    /\ pc \in {"rows", "rows_done"} =>
          \E i \in 1..Len(sub.column_mapping) : ~sub.column_mapping[i].is_discovered
    /\ ~ZeroBindingsResolved

\* a header row was located and mapped with one explicit binding beside a discovered one
C38_Witness ==
    /\ pc = "rows"
    /\ Cardinality({i \in 1..Len(sub.column_mapping) : ~sub.column_mapping[i].is_discovered}) = 1
    /\ \E i \in 1..Len(sub.column_mapping) : sub.column_mapping[i].is_discovered

\* the search passed over a row that only discoverable patterns match, and found no
\* header row
C38_WitnessNotLocated ==
    /\ pc = "returned"
    /\ sub.search_start_row # 0
    /\ sub.header_row = 0
    /\ \E row \in sub.search_start_row..worksheet.max_row :
          ExplicitColumns(row) = {} /\ DiscoverableColumns(row) # {}

-----------------------------------------------------------------------------
(* The two counters of the row scan *)

\* C39: in every state of the row scan, and after every processed row,
\* 0 <= consecutive_blank_rows <= consecutive_invalid_rows; so with both thresholds
\* set and max_consecutive_blank_rows >= max_consecutive_invalid_rows > 0 no scan is
\* halted by the blank-row threshold
C39_BlankWithinInvalid ==
    InRowScan =>
        /\ 0 <= scan.consecutive_blank_rows
        /\ scan.consecutive_blank_rows <= scan.consecutive_invalid_rows
        /\ \A k \in 1..Len(trace) :
              /\ 0 <= trace[k].consecutive_blank_rows
              /\ trace[k].consecutive_blank_rows <= trace[k].consecutive_invalid_rows
        /\ (/\ config.max_consecutive_invalid_rows > 0
            /\ config.max_consecutive_blank_rows >= config.max_consecutive_invalid_rows)
              => scan.stop # "blank_threshold"

\* under equal thresholds of 2 a scan was halted by the invalid-row threshold on the
\* row on which the blank-row threshold was reached as well
C39_Witness ==
    /\ pc = "rows_done"
    /\ config.max_consecutive_invalid_rows = 2
    /\ config.max_consecutive_blank_rows = 2
    /\ scan.stop = "invalid_threshold"
    /\ scan.consecutive_blank_rows = 2
    /\ scan.consecutive_invalid_rows = 2

-----------------------------------------------------------------------------
(* Termination of normalize_expression *)

\* C40 (as stated): for every tree that is not a query, normalize_expression comes
\* back with a rendered result: the recursion of visit ends and nothing is raised
C40_NormalizeExpressionReturns ==
    (sql.at = "done" /\ sql.fn = "normalize_expression" /\ ~QueryBelowParens(sql.given)) =>
        sql.out.kind = "returned"

====
